---------------------------- MODULE Spec2Model ----------------------------
(***************************************************************************)
(* Signal generator of the trend / counter-trend trading notebook          *)
(* (src/Signal_Generator_Final_Version.ipynb): the series table, the       *)
(* indicator functions, the z-score normalisation, the moving-average      *)
(* crossover generator create_FS_ret and the retracement generator         *)
(* create_CT_ret.                                                          *)
(*                                                                         *)
(* Numbers.  A cell of the table is a real number or one of the IEEE       *)
(* specials, held exactly as a triple <<n, d, k>>:                         *)
(*   k = 1   the rational n/d        (d >= 1, lowest terms)                *)
(*   k = 2   sgn(n) * sqrt(|n|/d)    (a standard deviation or a z-score    *)
(*           whose square is |n|/d and is not the square of a rational)    *)
(*   k = 0   d = 0:  n = 0 is NaN (pandas' missing marker),                *)
(*           n = 1 is +inf, n = -1 is -inf                                 *)
(*   k = 3   a finite real whose magnitude is not tracked (sums of         *)
(*           incommensurable square roots): n is its sign when known       *)
(*           (1, -1) and 0 when not.                                       *)
(* Arithmetic is that of the reals; float rounding is not modelled.        *)
(*                                                                         *)
(* Positions.  Python position t of a column is element t+1 of the         *)
(* sequence that models it.                                                *)
(***************************************************************************)
EXTENDS Integers, Sequences, FiniteSets, TLC

VARIABLES
    df,        \* the series table of the run (the notebook's global df)
    df2,       \* the table of a second run on mutated bars (look-ahead claims)
    pc,        \* position of the driver
    call,      \* the call the last step made: [fn, col, F, S, kind, period, retr]
    out,       \* what a call returned besides its effect on df
    rowFloat,  \* how this build hands row cells to a row-wise lambda
    cols_todo, \* to_be_normalized_cols, fixed at line 630
    k_loop,    \* index of the running for-loop over a list
    fs_choices,\* the list the trend sweep pops from (line 830)
    written    \* number of times the output file was written

vars == <<df, df2, pc, call, out, rowFloat, cols_todo, k_loop, fs_choices, written>>

----------------------------------------------------------------------------
(* Bounds of the model *)

\* rows of the table handed to create_CT_ret
LenCT == 2
\* rows of the two runs handed to calPreviousDayrange
LenDR == 3
\* day-range lookbacks are drawn from 1..MaxPeriod (the notebook's are 10, 20, 30)
MaxPeriod == 2
\* rows of the table handed to create_FS_ret
LenFS == 4
\* moving-average windows are drawn from 1..MaxWin (the notebook's run from 10 to 260)
MaxWin == 3
\* prices are drawn from 1..MaxPrice
MaxPrice == 2
\* the closes of the two runs handed to create_FS_ret
ClosesFS == {1, 2}

----------------------------------------------------------------------------
(* Integers *)

AbsI(i) == IF i < 0 THEN -i ELSE i

SgnI(i) == IF i < 0 THEN -1 ELSE IF i > 0 THEN 1 ELSE 0

RECURSIVE Gcd(_, _)
Gcd(a, b) == IF b = 0 THEN a ELSE Gcd(b, a % b)

RECURSIVE RootBetween(_, _, _)
\* the largest r in lo..hi with r*r <= n
RootBetween(n, lo, hi) ==
    IF lo >= hi THEN lo
    ELSE LET mid == (lo + hi + 1) \div 2
         IN  IF mid * mid <= n THEN RootBetween(n, mid, hi)
             ELSE RootBetween(n, lo, mid - 1)

ISqrt(n) == RootBetween(n, 0, IF n < 46340 THEN n ELSE 46340)

IsSquare(n) == LET r == ISqrt(n) IN r * r = n

----------------------------------------------------------------------------
(* Cells: exact reals and the IEEE specials *)

NaN == <<0, 0, 0>>
PInf == <<1, 0, 0>>
NInf == <<-1, 0, 0>>

IsNaN(v) == v = NaN
IsInf(v) == v = PInf \/ v = NInf
IsFin(v) == v[3] # 0
IsRat(v) == v[3] = 1
IsTracked(v) == v[3] \in {1, 2}

\* the rational n/d, d # 0
Rat(n, d) ==
    LET g == Gcd(AbsI(n), AbsI(d))
        s == IF d < 0 THEN -1 ELSE 1
    IN  <<(s * n) \div g, (s * d) \div g, 1>>

Num(i) == <<i, 1, 1>>
Zero == Num(0)

\* sgn(n) * sqrt(|n|/d), d > 0
Surd(n, d) ==
    LET g == Gcd(AbsI(n), d)
        a == AbsI(n) \div g
        b == d \div g
    IN  IF n = 0 THEN Zero
        ELSE IF IsSquare(a) /\ IsSquare(b) THEN Rat(SgnI(n) * ISqrt(a), ISqrt(b))
        ELSE <<SgnI(n) * a, b, 2>>

\* sign of a cell that has one
Sgn(v) == SgnI(v[1])

IsZero(v) == v = Zero

\* the square of a tracked finite cell, as a pair <<numerator, denominator>>
Sq(v) == IF v[3] = 1 THEN <<v[1] * v[1], v[2] * v[2]>> ELSE <<AbsI(v[1]), v[2]>>

\* -1, 0, 1 as p < q, p = q, p > q for non-negative fractions p, q
CmpFrac(p, q) ==
    LET g == Gcd(p[2], q[2])
    IN  SgnI(p[1] * (q[2] \div g) - q[1] * (p[2] \div g))

\* -1, 0, 1 as a < b, a = b, a > b for tracked finite cells
CmpFin(a, b) ==
    IF Sgn(a) # Sgn(b) THEN SgnI(Sgn(a) - Sgn(b))
    ELSE IF IsRat(a) /\ IsRat(b)
         THEN Sgn(a) * CmpFrac(<<AbsI(a[1]), a[2]>>, <<AbsI(b[1]), b[2]>>)
    ELSE Sgn(a) * CmpFrac(Sq(a), Sq(b))

Neg(v) == <<-v[1], v[2], v[3]>>

\* a * b for tracked finite cells
MulFin(a, b) ==
    IF IsRat(a) /\ IsRat(b)
    THEN LET g1 == Gcd(AbsI(a[1]), b[2])
             g2 == Gcd(AbsI(b[1]), a[2])
             h1 == IF g1 = 0 THEN 1 ELSE g1
             h2 == IF g2 = 0 THEN 1 ELSE g2
         IN  Rat((a[1] \div h1) * (b[1] \div h2), (a[2] \div h2) * (b[2] \div h1))
    ELSE LET p == Sq(a)
             q == Sq(b)
             g1 == Gcd(p[1], q[2])
             g2 == Gcd(q[1], p[2])
             h1 == IF g1 = 0 THEN 1 ELSE g1
             h2 == IF g2 = 0 THEN 1 ELSE g2
         IN  Surd(Sgn(a) * Sgn(b) * (p[1] \div h1) * (q[1] \div h2),
                  (p[2] \div h2) * (q[2] \div h1))

\* 1 / b for a tracked finite cell b # 0
InvFin(b) ==
    IF IsRat(b) THEN Rat(b[2], b[1])
    ELSE <<Sgn(b) * b[2], AbsI(b[1]), 2>>

\* a + b for tracked finite cells
AddFin(a, b) ==
    IF IsRat(a) /\ IsRat(b)
    THEN LET g == Gcd(a[2], b[2])
         IN  Rat(a[1] * (b[2] \div g) + b[1] * (a[2] \div g), a[2] * (b[2] \div g))
    ELSE IF IsZero(a) THEN b
    ELSE IF IsZero(b) THEN a
    ELSE LET r == MulFin(a, InvFin(b))
         IN  IF IsRat(r)
             THEN \* commensurable: a = r*b, so a + b = (r + 1) * b
                  MulFin(Rat(r[1] + r[2], r[2]), b)
             ELSE \* the sum is not zero; only its sign is kept
                  IF Sgn(a) = Sgn(b) THEN <<Sgn(a), 1, 3>>
                  ELSE IF CmpFrac(Sq(a), Sq(b)) > 0 THEN <<Sgn(a), 1, 3>>
                  ELSE <<Sgn(b), 1, 3>>

Add(a, b) ==
    IF IsNaN(a) \/ IsNaN(b) THEN NaN
    ELSE IF IsInf(a) /\ IsInf(b) THEN (IF a = b THEN a ELSE NaN)
    ELSE IF IsInf(a) THEN a
    ELSE IF IsInf(b) THEN b
    ELSE IF IsTracked(a) /\ IsTracked(b) THEN AddFin(a, b)
    ELSE IF IsZero(a) THEN b
    ELSE IF IsZero(b) THEN a
    ELSE <<0, 1, 3>>

Sub(a, b) == Add(a, Neg(b))

Mul(a, b) ==
    IF IsNaN(a) \/ IsNaN(b) THEN NaN
    ELSE IF IsInf(a) \/ IsInf(b)
         THEN (IF IsZero(a) \/ IsZero(b) THEN NaN
               ELSE IF Sgn(a) * Sgn(b) > 0 THEN PInf ELSE NInf)
    ELSE IF IsTracked(a) /\ IsTracked(b) THEN MulFin(a, b)
    ELSE IF IsZero(a) \/ IsZero(b) THEN Zero
    ELSE <<Sgn(a) * Sgn(b), 1, 3>>

\* a / b as IEEE arithmetic gives it (numpy.float64 cells): x/0 is +-inf, 0/0 is NaN
Div(a, b) ==
    IF IsNaN(a) \/ IsNaN(b) THEN NaN
    ELSE IF IsInf(a) /\ IsInf(b) THEN NaN
    ELSE IF IsInf(b) THEN Zero
    ELSE IF IsZero(b)
         THEN CASE IsZero(a) -> NaN
                [] Sgn(a) > 0 -> PInf
                [] Sgn(a) < 0 -> NInf
    ELSE IF IsInf(a) THEN (IF Sgn(a) * Sgn(b) > 0 THEN PInf ELSE NInf)
    ELSE IF IsTracked(a) /\ IsTracked(b) THEN MulFin(a, InvFin(b))
    ELSE IF IsZero(a) THEN Zero
    ELSE <<Sgn(a) * Sgn(b), 1, 3>>

\* a < b as Python compares floats: FALSE when either side is NaN
Lt(a, b) ==
    IF IsNaN(a) \/ IsNaN(b) THEN FALSE
    ELSE IF IsInf(a) \/ IsInf(b)
         THEN (a # b) /\ (a = NInf \/ b = PInf)
    ELSE CmpFin(a, b) < 0

Gt(a, b) == Lt(b, a)

\* sqrt of a rational cell v >= 0 (NaN stays NaN)
Sqrt(v) == IF IsNaN(v) THEN NaN ELSE Surd(v[1], v[2])


----------------------------------------------------------------------------
(* Column names: Python strings, as sequences of characters *)

Digit(i) == <<"0", "1", "2", "3", "4", "5", "6", "7", "8", "9">>[i + 1]

RECURSIVE str(_)
\* str(n) of a non-negative int
str(n) == IF n < 10 THEN <<Digit(n)>> ELSE str(n \div 10) \o <<Digit(n % 10)>>

\* sub in s, for two strings
Contains(sub, s) ==
    \E i \in 0..(Len(s) - Len(sub)) : SubSeq(s, i + 1, i + Len(sub)) = sub

s_Date == <<"D", "a", "t", "e">>
s_Open == <<"O", "p", "e", "n">>
s_High == <<"H", "i", "g", "h">>
s_Low == <<"L", "o", "w">>
s_Close == <<"C", "l", "o", "s", "e">>
s_eodRet == <<"e", "o", "d", "R", "e", "t">>
s_past_Close == <<"p", "a", "s", "t", "_", "C", "l", "o", "s", "e">>
s_SMA == <<"S", "M", "A">>
s_EMA == <<"E", "M", "A">>
s_us == <<"_">>
s_Dayrange == <<"D", "a", "y", "r", "a", "n", "g", "e">>
s_temp == <<"t", "e", "m", "p">>
s_Prev == <<"P", "r", "e", "v", "_">>
s_AvDayrange == <<"_", "A", "v", "D", "a", "y", "r", "a", "n", "g", "e">>
s_Prev_high == <<"P", "r", "e", "v", "_", "h", "i", "g", "h">>
s_Prev_low == <<"P", "r", "e", "v", "_", "l", "o", "w">>
s_Hit_level == <<"H", "i", "t", "_", "l", "e", "v", "e", "l">>
s_Hit == <<"H", "i", "t", "?">>
s_HitAt == <<"H", "i", "t", "A", "t">>
s_ExitPr == <<"E", "x", "i", "t", "P", "r">>
s_Long == <<"L", "o", "n", "g", "_">>
s_Short == <<"S", "h", "o", "r", "t", "_">>
s_long == <<"_", "l", "o", "n", "g", "_">>
s_short == <<"_", "s", "h", "o", "r", "t", "_">>
s_Signal == <<"_", "S", "i", "g", "n", "a", "l">>
s_Return == <<"_", "R", "e", "t", "u", "r", "n">>

----------------------------------------------------------------------------
(* The series table: a pandas DataFrame *)

\* a table is [index |-> row labels, cols |-> <<[name, vals], ...>>], every vals as
\* long as index

NRows(t) == Len(t.index)

\* df.columns
Columns(t) == [i \in 1..Len(t.cols) |-> t.cols[i].name]

\* name in df.columns
HasCol(t, name) == \E i \in 1..Len(t.cols) : t.cols[i].name = name

\* df[name]
Col(t, name) == t.cols[CHOOSE i \in 1..Len(t.cols) : t.cols[i].name = name].vals

\* a sequence with every element computed, once, when it is stored
Stored(vals) == CHOOSE v \in {vals} : v = <<>> \/ Len(v) > 0

\* df[name] = vals: replaces the column of that name where it stands, or appends
SetCol(t, name, vals) ==
    IF HasCol(t, name)
    THEN [t EXCEPT !.cols = Stored([i \in 1..Len(t.cols) |->
                                       IF t.cols[i].name = name
                                       THEN [name |-> name, vals |-> Stored(vals)]
                                       ELSE t.cols[i]])]
    ELSE [t EXCEPT !.cols = Append(t.cols, [name |-> name, vals |-> Stored(vals)])]

\* the columns cs, in order, but for those called by one of the names
Without(cs, names) ==
    LET Kept(c) == c.name \notin names
    IN  SelectSeq(cs, Kept)

\* df.drop(names, axis=1, inplace=True), every name a column of df
Drop(t, names) == [t EXCEPT !.cols = Without(t.cols, names)]

\* series.shift(k), k >= 0
Shift(x, k) ==
    [i \in 1..Len(x) |-> IF i <= k THEN NaN ELSE x[i - k]]

RECURSIVE SumCells(_)
SumCells(w) == IF w = <<>> THEN Zero ELSE Add(Head(w), SumCells(Tail(w)))

\* the mean of a non-empty window of cells
MeanCells(w) == Div(SumCells(w), Num(Len(w)))

\* the sample standard deviation (ddof = 1) of a window of cells
StdCells(w) ==
    IF \E i \in 1..Len(w) : IsNaN(w[i]) THEN NaN
    ELSE IF Len(w) < 2 THEN NaN
    ELSE IF \A i \in 1..Len(w) : w[i] = w[1] THEN Zero
    ELSE IF \A i \in 1..Len(w) : IsRat(w[i])
         THEN LET m == MeanCells(w)
                  d == [i \in 1..Len(w) |-> Mul(Sub(w[i], m), Sub(w[i], m))]
              IN  Sqrt(Div(SumCells(d), Num(Len(w) - 1)))
    ELSE <<1, 1, 3>>

\* series.rolling(window=w).mean(): missing until w values are in the window
RollingMean(x, w) ==
    [i \in 1..Len(x) |-> IF i < w THEN NaN ELSE MeanCells(SubSeq(x, i - w + 1, i))]

\* series.rolling(window=w).std()
RollingStd(x, w) ==
    [i \in 1..Len(x) |-> IF i < w THEN NaN ELSE StdCells(SubSeq(x, i - w + 1, i))]

\* the one element of a singleton: a value computed once and then named
The(S) == CHOOSE x \in S : TRUE

\* the rows of df that hold no NaN in any column
Complete(t) ==
    {i \in 1..NRows(t) : \A c \in 1..Len(t.cols) : ~IsNaN(t.cols[c].vals[i])}

RECURSIVE Pick(_, _, _)
\* the elements of x at the positions of keep, in order, from position i on
Pick(x, keep, i) ==
    IF i > Len(x) THEN <<>>
    ELSE (IF i \in keep THEN <<x[i]>> ELSE <<>>) \o Pick(x, keep, i + 1)

\* df.dropna(inplace=True): rows with a NaN go, the others keep their labels
dropna(t) ==
    LET keep == Complete(t)
    IN  [index |-> Pick(t.index, keep, 1),
         cols |-> [c \in 1..Len(t.cols) |->
                     [name |-> t.cols[c].name, vals |-> Pick(t.cols[c].vals, keep, 1)]]]

\* df.reset_index(drop=True, inplace=True)
reset_index(t) == [t EXCEPT !.index = [i \in 1..NRows(t) |-> i - 1]]


----------------------------------------------------------------------------
(* Returns and moving averages *)

\* line 151: eodRet from Close and past_Close, row by row; the divisor is a price,
\* never zero
EodRetRows(t) ==
    SetCol(t, s_eodRet,
           [i \in 1..NRows(t) |->
               Sub(Div(Col(t, s_Close)[i], Col(t, s_past_Close)[i]), Num(1))])

\* calEndOfDayRet(df)
calEndOfDayRet(t) ==
    Drop(EodRetRows(SetCol(t, s_past_Close, Shift(Col(t, s_Close), 1))), {s_past_Close})

\* calSMA(df, period)
calSMA(t, period) ==
    SetCol(t, s_SMA \o s_us \o str(period), RollingMean(Col(t, s_Close), period))

RECURSIVE EMAFirst(_, _, _)
\* the first n cells of the EMA column as the loop of calEMA leaves them:
\* NaN before label period-1, the mean of the first period values there, then
\* each cell from the one before it
EMAFirst(x, period, n) ==
    IF n = 0 THEN <<>>
    ELSE LET prev == EMAFirst(x, period, n - 1)
             k == Rat(2, period + 1)
         IN  Append(prev,
                    IF n < period THEN NaN
                    ELSE IF n = period THEN MeanCells(SubSeq(x, 1, period))
                    ELSE Add(Mul(prev[n - 1], Sub(Num(1), k)), Mul(x[n], k)))

\* the rows are labelled 0, 1, 2, ... (df.loc of calEMA addresses rows by label)
DefaultIndex(t) == t.index = [i \in 1..NRows(t) |-> i - 1]

calEMA_AsSMA(t, period) ==
    SetCol(t, s_EMA \o s_us \o str(period), RollingMean(Col(t, s_Close), period))

\* calEMA(df, period) on a table with default labels and period <= len(df)
calEMA(t, period) ==
    SetCol(t, s_EMA \o s_us \o str(period), EMAFirst(Col(t, s_Close), period, NRows(t)))

\* the branch of create_FS_ret that computes a missing average column
calMA(t, MA_type, period) ==
    IF MA_type = s_SMA THEN calSMA(t, period) ELSE calEMA(t, period)

----------------------------------------------------------------------------
(* Trend-following generator *)

MAName(MA_type, n) == MA_type \o s_us \o str(n)
SignalName(MA_type, F, S) == MA_type \o s_us \o str(F) \o s_us \o str(S) \o s_Signal
ReturnName(MA_type, F, S) == MA_type \o s_us \o str(F) \o s_us \o str(S) \o s_Return

\* the crossover test with >= for >: a tie goes long
Crossover_Ge(f, s) == IF Gt(f, s) \/ (IsFin(f) /\ f = s) THEN Num(1) ELSE Num(-1)

\* the crossover test of line 783: a comparison with NaN is False
Crossover(f, s) == IF Gt(f, s) THEN Num(1) ELSE Num(-1)

\* the signal left at the bar it was computed on
LagSignal_None(x) == x

\* the lag of line 784: today's position is yesterday's crossover state
LagSignal(x) == Shift(x, 1)

EnsureMA_Always(t, MA_type, n) == calMA(t, MA_type, n)

\* lines 766-780: an average column is computed only when the table has none of
\* that name
EnsureMA(t, MA_type, n) ==
    IF ~HasCol(t, MAName(MA_type, n)) THEN calMA(t, MA_type, n) ELSE t

\* line 783
CrossSignal(t, F, S, MA_type) ==
    SetCol(t, SignalName(MA_type, F, S),
           [i \in 1..NRows(t) |->
               Crossover(Col(t, MAName(MA_type, F))[i], Col(t, MAName(MA_type, S))[i])])

\* line 784
ShiftSignal(t, F, S, MA_type) ==
    SetCol(t, SignalName(MA_type, F, S), LagSignal(Col(t, SignalName(MA_type, F, S))))

\* lines 788-789
StrategyReturn(t, F, S, MA_type) ==
    SetCol(t, ReturnName(MA_type, F, S),
           [i \in 1..NRows(t) |->
               Mul(Col(t, SignalName(MA_type, F, S))[i], Col(t, s_eodRet)[i])])

\* create_FS_ret(df, F, S, MA_type), MA_type 'SMA' or 'EMA'
create_FS_ret(t, F, S, MA_type) ==
    The({StrategyReturn(e, F, S, MA_type) :
            e \in {calEndOfDayRet(d) :
            d \in {ShiftSignal(c, F, S, MA_type) :
            c \in {CrossSignal(b, F, S, MA_type) :
            b \in {EnsureMA(a, MA_type, S) :
            a \in {EnsureMA(t, MA_type, F)}}}}}})

----------------------------------------------------------------------------
(* Tables the runs start from *)

Prices == 1..MaxPrice

EmptyTable == [index |-> <<>>, cols |-> <<>>]

NoCall == [fn |-> "none", col |-> <<>>, F |-> 0, S |-> 0, MA_type |-> <<>>,
           period |-> 0, retr |-> 0, by |-> "none"]

\* how a build hands the cells of a row of a mixed-type table to a row-wise lambda:
\* as numpy.float64 (x/0 is +-inf or NaN) or as Python floats (x/0 raises
\* ZeroDivisionError)
RowFloats == {"numpy", "python"}

\* the table read_and_clean_df returns for bars <<Open, High, Low, Close>>
BarsTable(bars) ==
    LET n == Len(bars)
        col(name, k) == [name |-> name, vals |-> [i \in 1..n |-> Num(bars[i][k])]]
    IN  [index |-> [i \in 1..n |-> i - 1],
         cols |-> << [name |-> s_Date, vals |-> [i \in 1..n |-> Num(i)]],
                     col(s_Open, 1), col(s_High, 2), col(s_Low, 3), col(s_Close, 4) >>]

\* a bar that opened, peaked, bottomed and closed at c
FlatBar(c) == <<c, c, c, c>>

\* the Open, High, Low and Close of row i
BarAt(t, i) == <<Col(t, s_Open)[i], Col(t, s_High)[i], Col(t, s_Low)[i], Col(t, s_Close)[i]>>

----------------------------------------------------------------------------
(* SpecFS: create_FS_ret called on two runs of the same length *)

MATypes == {s_SMA, s_EMA}

InitFS ==
    /\ \E a \in [1..LenFS -> ClosesFS], b \in [1..LenFS -> ClosesFS] :
          /\ df = BarsTable([i \in 1..LenFS |-> FlatBar(a[i])])
          /\ df2 = BarsTable([i \in 1..LenFS |-> FlatBar(b[i])])
    /\ pc = "fs_start"
    /\ call = NoCall
    /\ out = <<>>
    /\ rowFloat = "numpy"   \* no divisor of these functions is zero: the builds agree
    /\ cols_todo = <<>>
    /\ k_loop = 0
    /\ fs_choices = <<>>
    /\ written = 0

RECURSIVE MASweep(_, _)
\* lines 282-284: for p in the window list: calSMA(df, p); calEMA(df, p), here for the
\* windows n..MaxWin
MASweep(t, n) ==
    IF n > MaxWin THEN t ELSE MASweep(calEMA(calSMA(t, n), n), n + 1)

\* the averages exist before the generator runs, as in the notebook
FS_Precompute ==
    /\ pc = "fs_start"
    /\ MaxWin <= NRows(df)
    /\ df' = MASweep(df, 1)
    /\ df2' = MASweep(df2, 1)
    /\ call' = [NoCall EXCEPT !.fn = "calSMA_calEMA", !.by = "driver"]
    /\ pc' = "fs_swept"
    /\ UNCHANGED <<out, rowFloat, cols_todo, k_loop, fs_choices, written>>

\* one call of create_FS_ret on each run, any two windows, either type
FS_Call ==
    /\ pc \in {"fs_start", "fs_swept"}
    /\ \E F \in 1..MaxWin, S \in 1..MaxWin, MA_type \in MATypes :
          /\ F <= NRows(df) /\ S <= NRows(df)
          /\ DefaultIndex(df) /\ DefaultIndex(df2)
          /\ df' = create_FS_ret(df, F, S, MA_type)
          /\ df2' = create_FS_ret(df2, F, S, MA_type)
          /\ call' = [NoCall EXCEPT !.fn = "create_FS_ret", !.F = F, !.S = S,
                                    !.MA_type = MA_type, !.by = "direct"]
    /\ pc' = "fs_called"
    /\ UNCHANGED <<out, rowFloat, cols_todo, k_loop, fs_choices, written>>

NextFS == FS_Precompute \/ FS_Call

SpecFS == InitFS /\ [][NextFS]_vars

\* the two runs hold the same bars at every row before row t
SameBarsBefore(t) == \A j \in 1..(t - 1) : BarAt(df, j) = BarAt(df2, j)

\* C1: no look-ahead in the trend signal: two runs whose bars agree at every
\* position before t hold the same signal at t, whatever their bars are from t on.
C1_NoLookAhead ==
    pc = "fs_called" =>
        LET sc == SignalName(call.MA_type, call.F, call.S)
        IN  \A t \in 1..NRows(df) :
               SameBarsBefore(t) => Col(df, sc)[t] = Col(df2, sc)[t]

\* a call whose runs part at the last row, with a long signal at that row
C1_Witness ==
    /\ pc = "fs_called"
    /\ SameBarsBefore(NRows(df))
    /\ BarAt(df, NRows(df)) # BarAt(df2, NRows(df))
    /\ Col(df, SignalName(call.MA_type, call.F, call.S))[NRows(df)] = Num(1)
    /\ Col(df, ReturnName(call.MA_type, call.F, call.S))[NRows(df)]
          # Col(df2, ReturnName(call.MA_type, call.F, call.S))[NRows(df)]

\* C2: at every position t >= 1 the signal is +1 exactly when MA_F[t-1] > MA_S[t-1]
\* and -1 otherwise (ties included), and the return is signal[t] * eodRet[t] with
\* eodRet[t] = Close[t]/Close[t-1] - 1.
C2_SignalAndReturn ==
    pc = "fs_called" =>
        LET f == Col(df, MAName(call.MA_type, call.F))
            s == Col(df, MAName(call.MA_type, call.S))
            sg == Col(df, SignalName(call.MA_type, call.F, call.S))
            rt == Col(df, ReturnName(call.MA_type, call.F, call.S))
            c == Col(df, s_Close)
        IN  \A i \in 2..NRows(df) :
               /\ sg[i] \in {Num(1), Num(-1)}
               /\ sg[i] = Num(1) <=>
                     (IsFin(f[i - 1]) /\ IsFin(s[i - 1]) /\ CmpFin(f[i - 1], s[i - 1]) > 0)
               /\ rt[i] = Rat(sg[i][1] * (c[i][1] - c[i - 1][1]), c[i - 1][1])

\* a call that meets a tie of two defined averages (short) and a fast average above
\* the slow one (long)
C2_Witness ==
    /\ pc = "fs_called"
    /\ call.F # call.S
    /\ LET f == Col(df, MAName(call.MA_type, call.F))
           s == Col(df, MAName(call.MA_type, call.S))
           sg == Col(df, SignalName(call.MA_type, call.F, call.S))
       IN  /\ \E i \in 2..NRows(df) : ~IsNaN(f[i - 1]) /\ f[i - 1] = s[i - 1] /\ sg[i] = Num(-1)
           /\ \E i \in 2..NRows(df) : sg[i] = Num(1)


----------------------------------------------------------------------------
(* Average day range *)

PrevAvName(period) == s_Prev \o str(period) \o s_AvDayrange

\* line 316
DayrangeRows(t) ==
    SetCol(t, s_Dayrange,
           [i \in 1..NRows(t) |-> Sub(Col(t, s_High)[i], Col(t, s_Low)[i])])

\* line 317
RangeMean(t, period) == SetCol(t, s_temp, RollingMean(Col(t, s_Dayrange), period))

\* the shift of line 318 with the lag left out
LagRange_None(x) == x

\* the shift of line 318: today's feature ends at yesterday's bar
LagRange(x) == Shift(x, 1)

\* line 318
PrevRange(t, period) == SetCol(t, PrevAvName(period), LagRange(Col(t, s_temp)))

\* calPreviousDayrange(df, period)
calPreviousDayrange(t, period) ==
    Drop(PrevRange(RangeMean(DayrangeRows(t), period), period), {s_temp})

RECURSIVE RangeSweep(_, _)
\* lines 321-322: for p in the lookback list: calPreviousDayrange(df, p), here for
\* the lookbacks n..MaxPeriod
RangeSweep(t, n) ==
    IF n > MaxPeriod THEN t ELSE RangeSweep(calPreviousDayrange(t, n), n + 1)

----------------------------------------------------------------------------
(* Counter-trend generator *)

\* str(x/10) for the retracements x/10 of line 915: one decimal
strTenths(x) == str(x \div 10) \o <<".">> \o str(x % 10)

LongReturnName(period, x) == s_Long \o str(period) \o s_us \o strTenths(x) \o s_Return
ShortReturnName(period, x) == s_Short \o str(period) \o s_us \o strTenths(x) \o s_Return
LongHitName(period, x) == s_Hit \o s_long \o str(period) \o s_us \o strTenths(x)
ShortHitName(period, x) == s_Hit \o s_short \o str(period) \o s_us \o strTenths(x)

\* lines 867-868
PrevHighLow(t) ==
    SetCol(SetCol(t, s_Prev_high, Shift(Col(t, s_High), 1)),
           s_Prev_low, Shift(Col(t, s_Low), 1))

\* line 881, retracement x/10
LongHitLevel(t, period, x) ==
    SetCol(t, s_Hit_level,
           [i \in 1..NRows(t) |->
               Sub(Col(t, s_Prev_high)[i], Mul(Col(t, PrevAvName(period))[i], Rat(x, 10)))])

\* the test of line 882 with <= for <
LongTouched_Le(low, level) == IF Lt(low, level) \/ (IsFin(low) /\ low = level) THEN Num(1) ELSE Num(0)

\* the test of line 882
LongTouched(low, level) == IF Lt(low, level) THEN Num(1) ELSE Num(0)

\* line 882
LongHit(t) ==
    SetCol(t, s_Hit,
           [i \in 1..NRows(t) |-> LongTouched(Col(t, s_Low)[i], Col(t, s_Hit_level)[i])])

\* line 883 without the test on the Open: the entry is always the level
LongHitAt_Level(t) ==
    SetCol(t, s_HitAt,
           [i \in 1..NRows(t) |-> Mul(Col(t, s_Hit_level)[i], Col(t, s_Hit)[i])])

\* line 883
LongHitAt(t) ==
    SetCol(t, s_HitAt,
           [i \in 1..NRows(t) |->
               IF Lt(Col(t, s_Open)[i], Col(t, s_Hit_level)[i])
               THEN Mul(Col(t, s_Open)[i], Col(t, s_Hit)[i])
               ELSE Mul(Col(t, s_Hit_level)[i], Col(t, s_Hit)[i])])

\* lines 884 and 893
ExitPr(t) ==
    SetCol(t, s_ExitPr, [i \in 1..NRows(t) |-> Mul(Col(t, s_Close)[i], Col(t, s_Hit)[i])])

\* the return of a row with the test on the hit flag left out
RowReturn_Unguarded(hit, exit, entry) == Sub(Div(exit, entry), Num(1))

\* the lambda of lines 885 and 894: the division is made only on a hit
RowReturn(hit, exit, entry) ==
    IF hit = Num(1) THEN Sub(Div(exit, entry), Num(1)) ELSE Num(0)

\* lines 885 and 894
TradeReturn(t, name) ==
    SetCol(t, name,
           [i \in 1..NRows(t) |->
               RowReturn(Col(t, s_Hit)[i], Col(t, s_ExitPr)[i], Col(t, s_HitAt)[i])])

\* lines 887 and 896
KeepHit(t, name) == SetCol(t, name, Col(t, s_Hit))

\* line 890, retracement x/10
ShortHitLevel(t, period, x) ==
    SetCol(t, s_Hit_level,
           [i \in 1..NRows(t) |->
               Add(Col(t, s_Prev_low)[i], Mul(Col(t, PrevAvName(period))[i], Rat(x, 10)))])

\* the test of line 891 with >= for >
ShortTouched_Ge(high, level) == IF Gt(high, level) \/ (IsFin(high) /\ high = level) THEN Num(1) ELSE Num(0)

\* the test of line 891
ShortTouched(high, level) == IF Gt(high, level) THEN Num(1) ELSE Num(0)

\* line 891
ShortHit(t) ==
    SetCol(t, s_Hit,
           [i \in 1..NRows(t) |-> ShortTouched(Col(t, s_High)[i], Col(t, s_Hit_level)[i])])

\* line 892
ShortHitAt(t) ==
    SetCol(t, s_HitAt,
           [i \in 1..NRows(t) |->
               IF Gt(Col(t, s_Open)[i], Col(t, s_Hit_level)[i])
               THEN Mul(Col(t, s_Open)[i], Col(t, s_Hit)[i])
               ELSE Mul(Col(t, s_Hit_level)[i], Col(t, s_Hit)[i])])

\* lines 881-887
LongSide(t, period, x) ==
    KeepHit(TradeReturn(ExitPr(LongHitAt(LongHit(LongHitLevel(t, period, x)))),
                        LongReturnName(period, x)),
            LongHitName(period, x))

\* lines 890-896
ShortSide(t, period, x) ==
    KeepHit(TradeReturn(ExitPr(ShortHitAt(ShortHit(ShortHitLevel(t, period, x)))),
                        ShortReturnName(period, x)),
            ShortHitName(period, x))

\* create_CT_ret(df, period, retracement), retracement x/10
create_CT_ret(t, period, x) ==
    Drop(ShortSide(LongSide(t, period, x), period, x),
         {s_Hit_level, s_Hit, s_HitAt, s_ExitPr})


----------------------------------------------------------------------------
(* SpecCT: create_CT_ret called on a table of well-formed bars *)

\* bars <<Open, High, Low, Close>> with Low <= Open, Close <= High
Bars ==
    {b \in Prices \X Prices \X Prices \X Prices :
        b[3] <= b[1] /\ b[1] <= b[2] /\ b[3] <= b[4] /\ b[4] <= b[2]}

\* line 915: [x/10 for x in range(6,30,4)], in tenths
Retracements == {x \in 6..29 : (x - 6) % 4 = 0}

InitCT ==
    /\ \E bars \in [1..LenCT -> Bars] : df = BarsTable(bars)
    /\ df2 = EmptyTable
    /\ pc = "ct_start"
    /\ call = NoCall
    /\ out = <<>>
    /\ rowFloat = "numpy"   \* no divisor of these functions is zero: the builds agree
    /\ cols_todo = <<>>
    /\ k_loop = 0
    /\ fs_choices = <<>>
    /\ written = 0

\* what the generator needs in the table: lines 321-322 and 867-868
CT_Prepare ==
    /\ pc = "ct_start"
    /\ df' = PrevHighLow(RangeSweep(df, 1))
    /\ pc' = "ct_ready"
    /\ call' = [NoCall EXCEPT !.fn = "calPreviousDayrange", !.by = "driver"]
    /\ UNCHANGED <<df2, out, rowFloat, cols_todo, k_loop, fs_choices, written>>

\* one call of create_CT_ret, any lookback and retracement of the sweep
CT_Call ==
    /\ pc = "ct_ready"
    /\ \E period \in 1..MaxPeriod, x \in Retracements :
          /\ df' = create_CT_ret(df, period, x)
          /\ call' = [NoCall EXCEPT !.fn = "create_CT_ret", !.period = period,
                                    !.retr = x, !.by = "direct"]
    /\ pc' = "ct_called"
    /\ UNCHANGED <<df2, out, rowFloat, cols_todo, k_loop, fs_choices, written>>

NextCT == CT_Prepare \/ CT_Call

SpecCT == InitCT /\ [][NextCT]_vars

\* the High (k = 2) or Low (k = 3) of the bar before row i, missing at the first row
PrevBar(i, k) == IF i = 1 THEN NaN ELSE BarAt(df, i - 1)[k]

\* the lagged average range of the call times its retracement, at row i
Retraced(i) == Mul(Col(df, PrevAvName(call.period))[i], Rat(call.retr, 10))

\* C3: long side: the hit level is the previous bar's High less the lagged average
\* range times the retracement; the flag is 1 exactly when Low is strictly below the
\* level; on a hit the entry is Open when Open is below the level and the level
\* otherwise, and the return is Close/entry - 1.
C3_LongTrade ==
    pc = "ct_called" =>
        \A i \in 1..NRows(df) :
            LET level == Sub(PrevBar(i, 2), Retraced(i))
                bar == BarAt(df, i)
                hit == Col(df, LongHitName(call.period, call.retr))[i]
                entry == IF Lt(bar[1], level) THEN bar[1] ELSE level
            IN  /\ hit \in {Num(0), Num(1)}
                /\ hit = Num(1) <=> (IsFin(level) /\ CmpFin(bar[3], level) < 0)
                /\ hit = Num(1) =>
                      Col(df, LongReturnName(call.period, call.retr))[i]
                         = Sub(Div(bar[4], entry), Num(1))

\* a long hit entered at the Open, which gapped below the level, with a gain
C3_Witness ==
    /\ pc = "ct_called"
    /\ \E i \in 1..NRows(df) :
          /\ Col(df, LongHitName(call.period, call.retr))[i] = Num(1)
          /\ Lt(BarAt(df, i)[1], Sub(PrevBar(i, 2), Retraced(i)))
          /\ Gt(Col(df, LongReturnName(call.period, call.retr))[i], Zero)

\* C4: short side: the hit level is the previous bar's Low plus the lagged average
\* range times the retracement; the flag is 1 exactly when High is strictly above the
\* level; on a hit the entry is Open when Open is above the level and the level
\* otherwise, and the return is Close/entry - 1.
C4_ShortTrade ==
    pc = "ct_called" =>
        \A i \in 1..NRows(df) :
            LET level == Add(PrevBar(i, 3), Retraced(i))
                bar == BarAt(df, i)
                hit == Col(df, ShortHitName(call.period, call.retr))[i]
                entry == IF Gt(bar[1], level) THEN bar[1] ELSE level
            IN  /\ hit \in {Num(0), Num(1)}
                /\ hit = Num(1) <=> (IsFin(level) /\ CmpFin(bar[2], level) > 0)
                /\ hit = Num(1) =>
                      Col(df, ShortReturnName(call.period, call.retr))[i]
                         = Sub(Div(bar[4], entry), Num(1))

\* a short hit entered at the level, the Open not above it, closing above the entry
C4_Witness ==
    /\ pc = "ct_called"
    /\ \E i \in 1..NRows(df) :
          /\ Col(df, ShortHitName(call.period, call.retr))[i] = Num(1)
          /\ ~Gt(BarAt(df, i)[1], Add(PrevBar(i, 3), Retraced(i)))
          /\ Gt(Col(df, ShortReturnName(call.period, call.retr))[i], Zero)

\* C5: in both directions the return is the number 0, never missing, at every row
\* whose hit flag is 0, rows with a missing hit level included.
C5_ZeroWhenNoHit ==
    pc = "ct_called" =>
        \A i \in 1..NRows(df) :
            /\ Col(df, LongHitName(call.period, call.retr))[i] = Num(0)
                  => Col(df, LongReturnName(call.period, call.retr))[i] = Zero
            /\ Col(df, ShortHitName(call.period, call.retr))[i] = Num(0)
                  => Col(df, ShortReturnName(call.period, call.retr))[i] = Zero

\* a call that leaves, unhit, a row with no hit level and a row with a hit level
C5_Witness ==
    /\ pc = "ct_called"
    /\ \E i \in 1..NRows(df) :
          /\ IsNaN(Sub(PrevBar(i, 2), Retraced(i)))
          /\ Col(df, LongHitName(call.period, call.retr))[i] = Num(0)
          /\ Col(df, ShortHitName(call.period, call.retr))[i] = Num(0)
    /\ \E i \in 1..NRows(df) :
          /\ IsFin(Sub(PrevBar(i, 2), Retraced(i)))
          /\ Col(df, LongHitName(call.period, call.retr))[i] = Num(0)
          /\ Col(df, ShortHitName(call.period, call.retr))[i] = Num(1)

\* the entry price behind the return of column name at row i: lines 885 and 894
\* store Close/entry - 1, and the Close of every bar is positive
EntryOf(name, i) == Div(BarAt(df, i)[4], Add(Col(df, name)[i], Num(1)))

\* the return at row i of column name was divided by an entry that is positive and
\* within the Low and the High of the bar
EntryWithin(name, i) ==
    LET bar == BarAt(df, i)
        entry == EntryOf(name, i)
    IN  /\ IsFin(Col(df, name)[i])
        /\ IsFin(entry)
        /\ Gt(entry, Zero)
        /\ ~Lt(entry, bar[3])
        /\ ~Gt(entry, bar[2])

\* C21: for every bar with 0 < Low <= Open <= High, every lookback and retracement
\* and both directions: whenever the hit flag is 1 the entry price is strictly
\* positive and within [Low, High] of the bar, so the return is a finite quotient.
C21_EntryWithinBar ==
    pc = "ct_called" =>
        \A i \in 1..NRows(df) :
            LET bar == BarAt(df, i)
            IN  (Gt(bar[3], Zero) /\ ~Gt(bar[3], bar[1]) /\ ~Gt(bar[1], bar[2])) =>
                   /\ Col(df, LongHitName(call.period, call.retr))[i] = Num(1)
                         => EntryWithin(LongReturnName(call.period, call.retr), i)
                   /\ Col(df, ShortHitName(call.period, call.retr))[i] = Num(1)
                         => EntryWithin(ShortReturnName(call.period, call.retr), i)

\* a row hit on both sides: the long entry is the level, strictly between the Low
\* and the Open, and the short entry is the Open, which is the High
C21_Witness ==
    /\ pc = "ct_called"
    /\ \E i \in 1..NRows(df) :
          LET bar == BarAt(df, i)
              long == EntryOf(LongReturnName(call.period, call.retr), i)
              short == EntryOf(ShortReturnName(call.period, call.retr), i)
          IN  /\ Col(df, LongHitName(call.period, call.retr))[i] = Num(1)
              /\ Col(df, ShortHitName(call.period, call.retr))[i] = Num(1)
              /\ Gt(long, bar[3]) /\ Lt(long, bar[1])
              /\ short = bar[1] /\ short = bar[2]

----------------------------------------------------------------------------
(* SpecDR: calPreviousDayrange called on two runs of the same length *)

\* the <<High, Low>> of the bars of the two runs
RangeBars == {<<1, 1>>, <<2, 1>>, <<3, 1>>}

\* a bar that opened at its low l and closed at its high h
RangeBar(hl) == <<hl[2], hl[1], hl[2], hl[1]>>

InitDR ==
    /\ \E a \in [1..LenDR -> RangeBars], b \in [1..LenDR -> RangeBars] :
          /\ df = BarsTable([i \in 1..LenDR |-> RangeBar(a[i])])
          /\ df2 = BarsTable([i \in 1..LenDR |-> RangeBar(b[i])])
    /\ pc = "dr_start"
    /\ call = NoCall
    /\ out = <<>>
    /\ rowFloat = "numpy"   \* no divisor of this function is zero: the builds agree
    /\ cols_todo = <<>>
    /\ k_loop = 0
    /\ fs_choices = <<>>
    /\ written = 0

\* one call of calPreviousDayrange on each run
DR_Call ==
    /\ pc = "dr_start"
    /\ \E period \in 1..MaxPeriod :
          /\ df' = calPreviousDayrange(df, period)
          /\ df2' = calPreviousDayrange(df2, period)
          /\ call' = [NoCall EXCEPT !.fn = "calPreviousDayrange", !.period = period,
                                    !.by = "direct"]
    /\ pc' = "dr_called"
    /\ UNCHANGED <<out, rowFloat, cols_todo, k_loop, fs_choices, written>>

NextDR == DR_Call

SpecDR == InitDR /\ [][NextDR]_vars

RECURSIVE RangeSum(_, _, _)
\* the sum of High - Low over rows lo..hi of table t, an integer
RangeSum(t, lo, hi) ==
    IF lo > hi THEN 0
    ELSE (Col(t, s_High)[hi][1] - Col(t, s_Low)[hi][1]) + RangeSum(t, lo, hi - 1)

\* C7: Prev_<w>_AvDayrange at position t is the mean of High - Low over the bars
\* t-w .. t-1, is missing for t < w, and is the same in two runs whose bars agree
\* before t.
C7_PrevDayrange ==
    pc = "dr_called" =>
        LET w == call.period
            av == Col(df, PrevAvName(w))
        IN  \A i \in 1..NRows(df) :
               /\ av[i] = IF i - 1 < w THEN NaN ELSE Rat(RangeSum(df, i - w, i - 1), w)
               /\ SameBarsBefore(i) => av[i] = Col(df2, PrevAvName(w))[i]

\* two runs that part at the last row only, with a defined average there
C7_Witness ==
    /\ pc = "dr_called"
    /\ SameBarsBefore(NRows(df))
    /\ BarAt(df, NRows(df)) # BarAt(df2, NRows(df))
    /\ IsFin(Col(df, PrevAvName(call.period))[NRows(df)])
    /\ Col(df, s_Dayrange)[NRows(df)] # Col(df2, s_Dayrange)[NRows(df)]

\* ---------------------------------------------------------------------------
\* Moving volatility and its downside variant
\* ---------------------------------------------------------------------------

LenMS == 5

s_MV == <<"M", "V", "_">>

s_Sortino_MV == <<"S", "o", "r", "t", "i", "n", "o", "_", "M", "V", "_">>

\* df["MV_"+str(period)] = df[col].rolling(window=period).std()
calMV(t, period, col) == SetCol(t, s_MV \o str(period), RollingStd(Col(t, col), period))

RECURSIVE neg_ret(_)
\* [ret for ret in period_data if ret < 0]
neg_ret(period_data) ==
    IF period_data = <<>> THEN <<>>
    ELSE IF Lt(Head(period_data), Zero)
         THEN <<Head(period_data)>> \o neg_ret(Tail(period_data))
         ELSE neg_ret(Tail(period_data))

\* result_list: period-1 missing values, then np.std(neg_ret, ddof=1) of each window
result_list(t, period, col) ==
    [i \in 1..NRows(t) |->
        IF i < period THEN NaN
        ELSE StdCells(neg_ret(SubSeq(Col(t, col), i - period + 1, i)))]

\* df["Sortino_MV_"+str(period)] = df[col].rolling(window=period).std(): the column
\* the function stores; result_list is only returned
calSortinoMV(t, period, col) ==
    SetCol(t, s_Sortino_MV \o str(period), RollingStd(Col(t, col), period))

\* ---------------------------------------------------------------------------
\* The volatility columns of one table of closes
\* ---------------------------------------------------------------------------

InitMS ==
    /\ \E a \in [1..LenMS -> Prices] : df = BarsTable([i \in 1..LenMS |-> FlatBar(a[i])])
    /\ df2 = EmptyTable
    /\ pc = "ms_start"
    /\ call = NoCall
    /\ out = <<>>
    /\ rowFloat = "numpy"   \* closes are positive: no divisor is zero
    /\ cols_todo = <<>>
    /\ k_loop = 0
    /\ fs_choices = <<>>
    /\ written = 0

\* df = calEndOfDayRet(df)
MS_EodRet ==
    /\ pc = "ms_start"
    /\ df' = calEndOfDayRet(df)
    /\ pc' = "ms_ret"
    /\ call' = [NoCall EXCEPT !.fn = "calEndOfDayRet", !.by = "driver"]
    /\ UNCHANGED <<df2, out, rowFloat, cols_todo, k_loop, fs_choices, written>>

\* one pass of the loop: calMV(df,p,col='eodRet'); calSortinoMV(df,p,col='eodRet')
MS_Volatility ==
    /\ pc = "ms_ret"
    /\ \E p \in 1..MaxWin :
          /\ df' = calSortinoMV(calMV(df, p, s_eodRet), p, s_eodRet)
          /\ out' = result_list(calMV(df, p, s_eodRet), p, s_eodRet)
          /\ call' = [NoCall EXCEPT !.fn = "calSortinoMV", !.col = s_eodRet,
                                    !.period = p, !.by = "driver"]
    /\ pc' = "ms_mv"
    /\ UNCHANGED <<df2, rowFloat, cols_todo, k_loop, fs_choices, written>>

NextMS == MS_EodRet \/ MS_Volatility

SpecMS == InitMS /\ [][NextMS]_vars

RECURSIVE Negatives(_)
\* the strictly negative values of a window, in order
Negatives(w) ==
    IF w = <<>> THEN <<>>
    ELSE (IF IsFin(Head(w)) /\ Sgn(Head(w)) < 0 THEN <<Head(w)>> ELSE <<>>)
         \o Negatives(Tail(w))

\* C6: after calSortinoMV(df, w, col), Sortino_MV_<w> at every position t >= w-1
\* is the sample standard deviation of the strictly negative values among the
\* trailing w values of col, and is missing when fewer than two are negative.
C6_SortinoDownside ==
    pc = "ms_mv" =>
        LET w == call.period
            x == Col(df, call.col)
        IN  \A i \in w..NRows(df) :
               Col(df, s_Sortino_MV \o str(w))[i] = StdCells(Negatives(SubSeq(x, i - w + 1, i)))

\* a window holding one negative and one positive return, with a stored deviation
C6_Witness ==
    /\ pc = "ms_mv"
    /\ call.period = 2
    /\ \E i \in 2..NRows(df) :
          /\ Len(Negatives(SubSeq(Col(df, s_eodRet), i - 1, i))) = 1
          /\ IsFin(Col(df, s_Sortino_MV \o str(2))[i])
          /\ IsNaN(out[i])

\* ---------------------------------------------------------------------------
\* Normalisation: z-scores against the lagged rolling mean and deviation
\* ---------------------------------------------------------------------------

\* the default norm_period of zCol, zzCol and zzzCol (20, 60, 260), scaled down
NormZ == 2

NormZZ == 3

NormZZZ == 4

LenZ == 5

s_z == <<"z", "_">>

s_zz == <<"z", "z", "_">>

s_zzz == <<"z", "z", "z", "_">>

s_temp_base_mean == <<"t", "e", "m", "p", "_", "b", "a", "s", "e", "_", "m", "e", "a", "n">>

s_temp_base_std == <<"t", "e", "m", "p", "_", "b", "a", "s", "e", "_", "s", "t", "d">>

ZNamed_Double(col) == Contains(s_zz, col)

\* if 'z_' in col
ZNamed(col) == Contains(s_z, col)

ZLag_None(x) == x

\* .shift(1) of a rolling statistic
ZLag(x) == Shift(x, 1)

\* df['temp_base_mean'] = df[col].rolling(window=norm_period).mean()
ZMean(t, col, norm_period) ==
    SetCol(t, s_temp_base_mean, RollingMean(Col(t, col), norm_period))

\* df['temp_base_mean'] = df['temp_base_mean'].shift(1)
ZMeanLag(t) == SetCol(t, s_temp_base_mean, ZLag(Col(t, s_temp_base_mean)))

\* df['temp_base_std'] = df[col].rolling(window=norm_period).std()
ZStd(t, col, norm_period) ==
    SetCol(t, s_temp_base_std, RollingStd(Col(t, col), norm_period))

\* df['temp_base_std'] = df['temp_base_std'].shift(1)
ZStdLag(t) == SetCol(t, s_temp_base_std, ZLag(Col(t, s_temp_base_std)))

\* the table when the row-wise division starts
ZTemps(t, col, norm_period) ==
    The({ZStdLag(c) : c \in {ZStd(b, col, norm_period) :
                       b \in {ZMeanLag(a) : a \in {ZMean(t, col, norm_period)}}}})

\* lambda row: (row[col] - row['temp_base_mean'])/row['temp_base_std'], on every row
ZRows(t, col, name) ==
    SetCol(t, name,
           [i \in 1..NRows(t) |->
               Div(Sub(Col(t, col)[i], Col(t, s_temp_base_mean)[i]),
                   Col(t, s_temp_base_std)[i])])

\* some row divides by a deviation that is exactly zero
ZeroDivisor(t) == \E i \in 1..NRows(t) : IsZero(Col(t, s_temp_base_std)[i])

\* the row-wise division on table t: it raises ZeroDivisionError on a zero
\* deviation where the row cells are Python floats, and fills the column otherwise
ZDivide(t, col, name) ==
    IF rowFloat = "python" /\ ZeroDivisor(t)
    THEN [df |-> t, raised |-> TRUE]
    ELSE [df |-> ZRows(t, col, name), raised |-> FALSE]

\* the body shared by zCol, zzCol and zzzCol: the table the call leaves behind,
\* and whether the call raised
ZScore(t, col, norm_period, prefix) ==
    IF ZNamed(col) THEN [df |-> t, raised |-> FALSE]
    ELSE The({ZDivide(a, col, prefix \o col) : a \in {ZTemps(t, col, norm_period)}})

zCol(t, col, norm_period) == ZScore(t, col, norm_period, s_z)

zzCol(t, col, norm_period) == ZScore(t, col, norm_period, s_zz)

zzzCol(t, col, norm_period) == ZScore(t, col, norm_period, s_zzz)

ZFns == {"zCol", "zzCol", "zzzCol"}

\* the default norm_period of the function of that name
ZDefault(fn) ==
    CASE fn = "zCol" -> NormZ
      [] fn = "zzCol" -> NormZZ
      [] fn = "zzzCol" -> NormZZZ

\* the function of that name called with its default norm_period
ZApply(fn, t, col) ==
    CASE fn = "zCol" -> zCol(t, col, NormZ)
      [] fn = "zzCol" -> zzCol(t, col, NormZZ)
      [] fn = "zzzCol" -> zzzCol(t, col, NormZZZ)

\* ---------------------------------------------------------------------------
\* The normalisation cells of the notebook, and calls made on the finished table
\* ---------------------------------------------------------------------------

ClosesZ == {1, 2}

InitZ ==
    /\ \E a \in [1..LenZ -> ClosesZ] : df = BarsTable([i \in 1..LenZ |-> FlatBar(a[i])])
    /\ df2 = EmptyTable
    /\ pc = "z_start"
    /\ call = NoCall
    /\ out = <<>>
    /\ rowFloat \in RowFloats
    /\ cols_todo = <<>>
    /\ k_loop = 0
    /\ fs_choices = <<>>
    /\ written = 0

\* df = calEndOfDayRet(df)
Z_EodRet ==
    /\ pc = "z_start"
    /\ df' = calEndOfDayRet(df)
    /\ pc' = "z_ret"
    /\ call' = [NoCall EXCEPT !.fn = "calEndOfDayRet", !.by = "driver"]
    /\ UNCHANGED <<df2, out, rowFloat, cols_todo, k_loop, fs_choices, written>>

\* to_be_normalized_cols = df.columns[1:len(df.columns)]
Z_FixList ==
    /\ pc = "z_ret"
    /\ cols_todo' = Tail(Columns(df))
    /\ k_loop' = 1
    /\ pc' = "z_loop"
    /\ call' = NoCall
    /\ UNCHANGED <<df, df2, out, rowFloat, fs_choices, written>>

\* one pass of "for col in to_be_normalized_cols: fn(df,col)" that ends as r says
LoopStep(r, fn) ==
    /\ df' = r.df
    /\ pc' = IF r.raised THEN "raised" ELSE pc
    /\ k_loop' = k_loop + 1
    /\ call' = [NoCall EXCEPT !.fn = fn, !.col = cols_todo[k_loop],
                              !.period = ZDefault(fn), !.by = "driver"]
    /\ UNCHANGED <<df2, out, rowFloat, cols_todo, fs_choices, written>>

\* df.drop(['temp_base_mean','temp_base_std'],axis = 1,inplace = True) after a loop
DropTemps(next) ==
    /\ k_loop > Len(cols_todo)
    /\ df' = Drop(df, {s_temp_base_mean, s_temp_base_std})
    /\ pc' = next
    /\ k_loop' = 1
    /\ call' = NoCall
    /\ UNCHANGED <<df2, out, rowFloat, cols_todo, fs_choices, written>>

Z_Loop ==
    /\ pc = "z_loop"
    /\ k_loop <= Len(cols_todo)
    /\ \E r \in {zCol(df, cols_todo[k_loop], NormZ)} : LoopStep(r, "zCol")

Z_Drop ==
    /\ pc = "z_loop"
    /\ DropTemps("zz_loop")

ZZ_Loop ==
    /\ pc = "zz_loop"
    /\ k_loop <= Len(cols_todo)
    /\ \E r \in {zzCol(df, cols_todo[k_loop], NormZZ)} : LoopStep(r, "zzCol")

ZZ_Drop ==
    /\ pc = "zz_loop"
    /\ DropTemps("zzz_loop")

ZZZ_Loop ==
    /\ pc = "zzz_loop"
    /\ k_loop <= Len(cols_todo)
    /\ \E r \in {zzzCol(df, cols_todo[k_loop], NormZZZ)} : LoopStep(r, "zzzCol")

ZZZ_Drop ==
    /\ pc = "zzz_loop"
    /\ DropTemps("z_done")

\* a call of one of the three functions on any numeric column of the finished table
Z_Direct ==
    /\ pc = "z_done"
    /\ \E fn \in ZFns, k \in 2..Len(Columns(df)) :
          \E r \in {ZApply(fn, df, Columns(df)[k])} :
             /\ df' = r.df
             /\ pc' = IF r.raised THEN "raised" ELSE "z_direct"
             /\ call' = [NoCall EXCEPT !.fn = fn, !.col = Columns(df)[k],
                                       !.period = ZDefault(fn), !.by = "direct"]
    /\ UNCHANGED <<df2, out, rowFloat, cols_todo, k_loop, fs_choices, written>>

NextZ ==
    \/ Z_EodRet
    \/ Z_FixList
    \/ Z_Loop
    \/ Z_Drop
    \/ ZZ_Loop
    \/ ZZ_Drop
    \/ ZZZ_Loop
    \/ ZZZ_Drop
    \/ Z_Direct

SpecZ == InitZ /\ [][NextZ]_vars

\* the three prefixes with the window each function uses
ZOutputs == {<<s_z, NormZ>>, <<s_zz, NormZZ>>, <<s_zzz, NormZZZ>>}

\* a name that begins with z_, zz_ or zzz_
IsZOutput(col) ==
    \E p \in ZOutputs : Len(col) >= Len(p[1]) /\ SubSeq(col, 1, Len(p[1])) = p[1]

\* the squared deviations of the values of w from m
SqDev(w, m) == [j \in 1..Len(w) |-> Mul(Sub(w[j], m), Sub(w[j], m))]

\* the sample variance (N-1 denominator) of the values of w
SampleVar(w) == Div(SumCells(SqDev(w, MeanCells(w))), Num(Len(w) - 1))

\* x[i] minus the mean of the w values before it
DevBefore(x, i, w) == Sub(x[i], MeanCells(SubSeq(x, i - w, i - 1)))

\* the w values before x[i] and x[i] itself are all present
FullBefore(x, i, w) == i > w /\ \A j \in (i - w)..i : ~IsNaN(x[j])

\* z is (x[i] - mean) / std for the mean and sample deviation of x over the w
\* positions before i, where that deviation is not zero
ZRelation(z, x, i, w) ==
    IF ~FullBefore(x, i, w) THEN IsNaN(z)
    ELSE \E v \in {SampleVar(SubSeq(x, i - w, i - 1))}, d \in {DevBefore(x, i, w)} :
            \/ IsZero(v)
            \/ /\ IsFin(z)
               /\ Sgn(z) = Sgn(d)
               /\ Mul(Mul(z, z), v) = Mul(d, d)

\* the columns of the table that no normalisation produced, Date aside
RawColumns(t) ==
    {c \in {Columns(t)[k] : k \in 2..Len(Columns(t))} :
        ~IsZOutput(c) /\ c \notin {s_temp_base_mean, s_temp_base_std}}

\* C8: the column zCol, zzCol or zzzCol makes for a column x holds at position t
\* (x[t] - mean) / std, with the mean and sample deviation of the raw x over
\* positions t-window .. t-1, and is missing where that window is incomplete.
C8_ZScoreOfRawColumn ==
    \A c \in RawColumns(df) : \A p \in ZOutputs :
        HasCol(df, p[1] \o c) =>
            \E x \in {Col(df, c)}, z \in {Col(df, p[1] \o c)} :
                \A i \in 1..NRows(df) : ZRelation(z[i], x, i, p[2])

\* all three scores of Close exist and the longest window gave a non-zero score
C8_Witness ==
    /\ pc = "z_done"
    /\ HasCol(df, s_z \o s_Close)
    /\ HasCol(df, s_zz \o s_Close)
    /\ \E i \in 1..NRows(df) :
          /\ IsFin(Col(df, s_zzz \o s_Close)[i])
          /\ ~IsZero(Col(df, s_zzz \o s_Close)[i])
          /\ IsFin(Col(df, s_zz \o s_eodRet)[i])
          /\ ~IsZero(Col(df, s_zz \o s_eodRet)[i])

\* C9: wherever the lagged deviation is zero the score is missing, whatever the
\* numerator, and no call raises.
C9_ZeroStdIsMissing ==
    /\ pc # "raised"
    /\ \A c \in RawColumns(df) : \A p \in ZOutputs :
          HasCol(df, p[1] \o c) =>
              \A i \in 1..NRows(df) :
                  (FullBefore(Col(df, c), i, p[2])
                     /\ IsZero(SampleVar(SubSeq(Col(df, c), i - p[2], i - 1))))
                  => IsNaN(Col(df, p[1] \o c)[i])

\* a score over a zero deviation with a non-zero numerator
C9_Witness ==
    \E c \in RawColumns(df) : \E p \in ZOutputs :
        /\ HasCol(df, p[1] \o c)
        /\ \E i \in 1..NRows(df) :
              /\ FullBefore(Col(df, c), i, p[2])
              /\ IsZero(SampleVar(SubSeq(Col(df, c), i - p[2], i - 1)))
              /\ ~IsZero(DevBefore(Col(df, c), i, p[2]))
              /\ IsInf(Col(df, p[1] \o c)[i])

\* C10: a call of zCol, zzCol or zzzCol on a column named z_, zz_ or zzz_ leaves
\* the table as it was; the list the driver loops over is taken once, from a
\* table holding no such column, and the driver calls none of the three on one.
C10_IdempotentBySkip ==
    /\ [](\A k \in 1..Len(cols_todo) : ~IsZOutput(cols_todo[k]))
    /\ [][/\ (call'.fn \in ZFns /\ IsZOutput(call'.col)) => df' = df
          /\ (call'.fn \in ZFns /\ call'.by = "driver") =>
                 (~IsZOutput(call'.col) /\ cols_todo' = cols_todo)
          /\ cols_todo' # cols_todo =>
                 /\ cols_todo = <<>>
                 /\ \A k \in 1..Len(Columns(df)) : ~IsZOutput(Columns(df)[k])]_vars

\* each of the three prefixes was fed back into one of the functions
C10_Witness ==
    /\ pc = "z_direct"
    /\ call.fn = "zCol"
    /\ call.col = s_zzz \o s_Close
    /\ HasCol(df, call.col)
    /\ ~HasCol(df, s_z \o call.col)

\* ---------------------------------------------------------------------------
\* Past returns
\* ---------------------------------------------------------------------------

LenEP == 4

s_yesterday_Close == <<"y", "e", "s", "t", "e", "r", "d", "a", "y", "_", "C", "l", "o", "s", "e">>

s_pret == <<"p", "r", "e", "t">>

YesterdayClose_Today(x) == x

\* df[col].shift(1)
YesterdayClose(x) == Shift(x, 1)

\* df['past_Close'] = df[col].shift(period+1); df['yesterday_Close'] = df[col].shift(1)
PretShifts(t, period) ==
    SetCol(SetCol(t, s_past_Close, Shift(Col(t, s_Close), period + 1)),
           s_yesterday_Close, YesterdayClose(Col(t, s_Close)))

\* lambda row: row['yesterday_Close']/row['past_Close']-1, on every row
PretRows(t, period) ==
    SetCol(t, s_pret \o str(period),
           [i \in 1..NRows(t) |->
               Sub(Div(Col(t, s_yesterday_Close)[i], Col(t, s_past_Close)[i]), Num(1))])

\* calPret(df, period)
calPret(t, period) ==
    The({Drop(Drop(PretRows(a, period), {s_yesterday_Close}), {s_past_Close}) :
            a \in {PretShifts(t, period)}})

\* ---------------------------------------------------------------------------
\* The return and average columns of one table of closes, and of a second table
\* that differs from it in one close
\* ---------------------------------------------------------------------------

ClosesEP == {1, 2, 3}

\* the table with the Close of row j replaced by c
WithClose(t, j, c) ==
    SetCol(t, s_Close, [Col(t, s_Close) EXCEPT ![j] = Num(c)])

InitEP ==
    /\ \E a \in [1..LenEP -> ClosesEP], j \in 1..LenEP, c \in ClosesEP :
          /\ df = BarsTable([i \in 1..LenEP |-> FlatBar(a[i])])
          /\ df2 = WithClose(BarsTable([i \in 1..LenEP |-> FlatBar(a[i])]), j, c)
    /\ pc = "ep_start"
    /\ call = NoCall
    /\ out = <<>>
    /\ rowFloat = "numpy"   \* closes are positive: no divisor is zero
    /\ cols_todo = <<>>
    /\ k_loop = 0
    /\ fs_choices = <<>>
    /\ written = 0

\* calEndOfDayRet(df)
EP_EodRet ==
    /\ pc = "ep_start"
    /\ df' = calEndOfDayRet(df)
    /\ df2' = calEndOfDayRet(df2)
    /\ pc' = "ep_ret"
    /\ call' = [NoCall EXCEPT !.fn = "calEndOfDayRet", !.by = "driver"]
    /\ UNCHANGED <<out, rowFloat, cols_todo, k_loop, fs_choices, written>>

\* one pass of "for p in [...]: calPret(df,p,col = 'Close')"
EP_Pret ==
    /\ pc = "ep_start"
    /\ \E p \in 1..MaxPeriod :
          /\ df' = calPret(df, p)
          /\ df2' = calPret(df2, p)
          /\ call' = [NoCall EXCEPT !.fn = "calPret", !.period = p, !.by = "driver"]
    /\ pc' = "ep_pret"
    /\ UNCHANGED <<out, rowFloat, cols_todo, k_loop, fs_choices, written>>

\* calEMA(df,p,col = 'Close') for a window no longer than the table
EP_EMA ==
    /\ pc = "ep_start"
    /\ DefaultIndex(df)
    /\ \E p \in 1..MaxWin :
          /\ p <= NRows(df)
          /\ df' = calEMA(df, p)
          /\ df2' = calEMA(df2, p)
          /\ call' = [NoCall EXCEPT !.fn = "calEMA", !.period = p, !.by = "driver"]
    /\ pc' = "ep_ema"
    /\ UNCHANGED <<out, rowFloat, cols_todo, k_loop, fs_choices, written>>

NextEP == EP_EodRet \/ EP_Pret \/ EP_EMA

SpecEP == InitEP /\ [][NextEP]_vars

\* the Close of row i of table t, an integer
CloseAt(t, i) == Col(t, s_Close)[i][1]

RECURSIVE CloseSum(_, _)
\* the sum of the first n closes of table t, an integer
CloseSum(t, n) == IF n = 0 THEN 0 ELSE CloseAt(t, n) + CloseSum(t, n - 1)

\* C11: for a window w no longer than the series, the EMA_<w> column is missing
\* at positions 0..w-2, is the arithmetic mean of the first w closes at position
\* w-1, and at every later position i satisfies
\* EMA[i] = EMA[i-1]*(1-k) + Close[i]*k with k = 2/(w+1).
C11_EMARecurrence ==
    pc = "ep_ema" =>
        \E w \in {call.period} : \E ema \in {Col(df, s_EMA \o s_us \o str(w))} :
            \A i \in 1..NRows(df) :
                IF i < w THEN IsNaN(ema[i])
                ELSE IF i = w THEN ema[i] = Rat(CloseSum(df, w), w)
                ELSE /\ IsRat(ema[i])
                     /\ Mul(ema[i], Num(w + 1))
                           = Add(Mul(ema[i - 1], Num(w - 1)), Num(2 * CloseAt(df, i)))

\* a window of two or more with a seed and a later value that differs from it
C11_Witness ==
    /\ pc = "ep_ema"
    /\ call.period >= 2
    /\ call.period < NRows(df)
    /\ IsNaN(Col(df, s_EMA \o s_us \o str(call.period))[1])
    /\ Col(df, s_EMA \o s_us \o str(call.period))[NRows(df)]
          # Col(df, s_EMA \o s_us \o str(call.period))[call.period]
    /\ CloseAt(df, NRows(df)) # CloseAt(df, NRows(df) - 1)

\* the closes of the two tables agree at every row but row i
SameClosesBut(i) ==
    \A j \in 1..NRows(df) : j # i => Col(df, s_Close)[j] = Col(df2, s_Close)[j]

\* C12: pret<p>[t] = Close[t-1]/Close[t-1-p] - 1, missing exactly for t < p+1 and
\* the same whatever Close[t] is; eodRet[t] = Close[t]/Close[t-1] - 1, missing
\* only at position 0.
C12_PastAndDayReturn ==
    /\ pc = "ep_pret" =>
          \E p \in {call.period} : \E pret \in {Col(df, s_pret \o str(p))} :
              \A i \in 1..NRows(df) :
                  /\ pret[i] = IF i - 1 < p + 1 THEN NaN
                               ELSE Rat(CloseAt(df, i - 1) - CloseAt(df, i - 1 - p),
                                        CloseAt(df, i - 1 - p))
                  /\ SameClosesBut(i) => Col(df2, s_pret \o str(p))[i] = pret[i]
    /\ pc = "ep_ret" =>
          \A i \in 1..NRows(df) :
              Col(df, s_eodRet)[i] = IF i = 1 THEN NaN
                                     ELSE Rat(CloseAt(df, i) - CloseAt(df, i - 1),
                                              CloseAt(df, i - 1))

\* two tables that part at the last close only, with a non-zero past return there
C12_Witness ==
    /\ pc = "ep_pret"
    /\ SameClosesBut(NRows(df))
    /\ Col(df, s_Close)[NRows(df)] # Col(df2, s_Close)[NRows(df)]
    /\ IsFin(Col(df, s_pret \o str(call.period))[NRows(df)])
    /\ ~IsZero(Col(df, s_pret \o str(call.period))[NRows(df)])
    /\ IsNaN(Col(df, s_pret \o str(call.period))[call.period + 1])

\* ---------------------------------------------------------------------------
\* Date strings
\* ---------------------------------------------------------------------------

MaxFields == 4

RECURSIVE split(_, _)
\* timeString.split(sep) for a one-character sep
split(s, sep) ==
    IF s = <<>> THEN << <<>> >>
    ELSE IF Head(s) = sep THEN << <<>> >> \o split(Tail(s), sep)
    ELSE The({ << <<Head(s)>> \o r[1] >> \o Tail(r) : r \in {split(Tail(s), sep)} })

\* '0' if len(field)==1 else ''
add_zero(field) == IF Len(field) = 1 THEN <<"0">> ELSE <<>>

\* lines 75-78 on the list of fields: indexing a list shorter than three raises
\* IndexError; a longer list is read up to its third field
JoinFields(timeStringList) ==
    IF Len(timeStringList) < 3 THEN [raised |-> "IndexError", value |-> <<>>]
    ELSE [raised |-> "no",
          value |-> timeStringList[1] \o <<"/">>
                    \o add_zero(timeStringList[2]) \o timeStringList[2] \o <<"/">>
                    \o add_zero(timeStringList[3]) \o timeStringList[3]]

\* standardizeTimeString(timeString): with neither separator in the string the
\* list is never bound and line 75 raises UnboundLocalError
standardizeTimeString(timeString) ==
    IF Contains(<<"-">>, timeString) THEN JoinFields(split(timeString, "-"))
    ELSE IF Contains(<<"/">>, timeString) THEN JoinFields(split(timeString, "/"))
    ELSE [raised |-> "UnboundLocalError", value |-> <<>>]

\* ---------------------------------------------------------------------------
\* One call of standardizeTimeString on a string of up to MaxFields fields
\* ---------------------------------------------------------------------------

DateFields == { <<"1">>, <<"1", "2">>, <<"2", "0", "2", "0">>, <<"a">> }

DateSeparators == { "-", "/" }

RECURSIVE Joined(_, _, _)
\* the first n fields of f, field i+1 joined to field i by separator g[i]
Joined(f, g, n) ==
    IF n = 1 THEN f[1] ELSE Joined(f, g, n - 1) \o <<g[n - 1]>> \o f[n]

InitDate ==
    /\ \E n \in 1..MaxFields :
          \E f \in [1..n -> DateFields], g \in [1..(n - 1) -> DateSeparators] :
             call = [NoCall EXCEPT !.fn = "standardizeTimeString",
                                   !.col = Joined(f, g, n), !.by = "pending"]
    /\ df = EmptyTable
    /\ df2 = EmptyTable
    /\ pc = "date_start"
    /\ out = <<>>
    /\ rowFloat = "numpy"
    /\ cols_todo = <<>>
    /\ k_loop = 0
    /\ fs_choices = <<>>
    /\ written = 0

\* the call returns a string
Date_Return ==
    /\ pc = "date_start"
    /\ standardizeTimeString(call.col).raised = "no"
    /\ out' = standardizeTimeString(call.col)
    /\ pc' = "date_returned"
    /\ call' = [call EXCEPT !.by = "direct"]
    /\ UNCHANGED <<df, df2, rowFloat, cols_todo, k_loop, fs_choices, written>>

\* the call raises
Date_Raise ==
    /\ pc = "date_start"
    /\ standardizeTimeString(call.col).raised # "no"
    /\ out' = standardizeTimeString(call.col)
    /\ pc' = "date_raised"
    /\ call' = [call EXCEPT !.by = "direct"]
    /\ UNCHANGED <<df, df2, rowFloat, cols_todo, k_loop, fs_choices, written>>

NextDate == Date_Return \/ Date_Raise

SpecDate == InitDate /\ [][NextDate]_vars

\* a field of one or two digits, a field of four digits
IsDigits(field, lo, hi) ==
    /\ Len(field) >= lo
    /\ Len(field) <= hi
    /\ \A i \in 1..Len(field) : field[i] \in {Digit(d) : d \in 0..9}

\* the fields of a string written with one kind of separator only
FieldsBy(s, sep) == IF Contains(<<sep>>, s) THEN split(s, sep) ELSE <<s>>

\* s is month, day, year with sep between them
IsMonthDayYear(s, sep) ==
    /\ \A other \in DateSeparators \ {sep} : ~Contains(<<other>>, s)
    /\ Len(FieldsBy(s, sep)) = 3
    /\ IsDigits(FieldsBy(s, sep)[1], 1, 2)
    /\ IsDigits(FieldsBy(s, sep)[2], 1, 2)
    /\ IsDigits(FieldsBy(s, sep)[3], 4, 4)

\* s is year, month, day with sep between them
IsYearMonthDay(s, sep) ==
    /\ \A other \in DateSeparators \ {sep} : ~Contains(<<other>>, s)
    /\ Len(FieldsBy(s, sep)) = 3
    /\ IsDigits(FieldsBy(s, sep)[1], 4, 4)
    /\ IsDigits(FieldsBy(s, sep)[2], 1, 2)
    /\ IsDigits(FieldsBy(s, sep)[3], 1, 2)

\* a month or day padded to two digits
TwoDigits(field) == IF Len(field) = 1 THEN <<"0">> \o field ELSE field

\* YYYY/MM/DD
CanonicalDate(year, month, day) ==
    year \o <<"/">> \o TwoDigits(month) \o <<"/">> \o TwoDigits(day)

\* C13: for an input in M/D/YYYY or M-D-YYYY form, and for one in Y/M/D or Y-M-D
\* form, standardizeTimeString returns the canonical YYYY/MM/DD string.
C13_CanonicalDate ==
    pc \in {"date_returned", "date_raised"} =>
        \A sep \in DateSeparators :
            /\ IsMonthDayYear(call.col, sep) =>
                  out = [raised |-> "no",
                         value |-> CanonicalDate(FieldsBy(call.col, sep)[3],
                                                 FieldsBy(call.col, sep)[1],
                                                 FieldsBy(call.col, sep)[2])]
            /\ IsYearMonthDay(call.col, sep) =>
                  out = [raised |-> "no",
                         value |-> CanonicalDate(FieldsBy(call.col, sep)[1],
                                                 FieldsBy(call.col, sep)[2],
                                                 FieldsBy(call.col, sep)[3])]

\* a month-first date that came back with the year still last
C13_Witness ==
    /\ pc = "date_returned"
    /\ IsMonthDayYear(call.col, "/")
    /\ out.value = call.col

\* C14: standardizeTimeString raises, and returns no string, for every input
\* that is not three numeric fields separated by '-' or by '/'.
C14_RejectsMalformed ==
    pc \in {"date_returned", "date_raised"} =>
        ((\A sep \in DateSeparators :
             ~(/\ \A other \in DateSeparators \ {sep} : ~Contains(<<other>>, call.col)
               /\ Len(FieldsBy(call.col, sep)) = 3
               /\ \A i \in 1..3 : IsDigits(FieldsBy(call.col, sep)[i], 1, 4)))
         => out.raised # "no")

\* a string of four fields, and one of letters, came back as a string
C14_Witness ==
    /\ pc = "date_returned"
    /\ \/ Len(FieldsBy(call.col, "/")) = 4
       \/ FieldsBy(call.col, "/")[1] = <<"a">>

\* ---------------------------------------------------------------------------
\* Loading: read_and_clean_df from the rows pd.read_csv returned
\* ---------------------------------------------------------------------------

LenLoad == 3

\* the Date column with every string standardized
StandardDates(t) ==
    SetCol(t, s_Date, [i \in 1..NRows(t) |-> standardizeTimeString(Col(t, s_Date)[i]).value])

\* some date of the table makes standardizeTimeString raise
DateRaises(t) ==
    \E i \in 1..NRows(t) : standardizeTimeString(Col(t, s_Date)[i]).raised # "no"

HasDuplicates_Never(dates) == FALSE

\* len(set(list(df['Date']))) != len(list(df['Date']))
HasDuplicates(dates) == Cardinality({dates[i] : i \in 1..Len(dates)}) # Len(dates)

\* what the function prints: the alert when dates repeat, then the row counts
Printed(raw, t) ==
    (IF HasDuplicates(Col(t, s_Date)) THEN <<"Alert: duplicate dates discovered">> ELSE <<>>)
    \o << <<NRows(raw), NRows(raw) - NRows(t), NRows(t), Len(t.cols)>> >>

\* lines 96-100 on the cleaned table a
CleanDates(raw, a) ==
    IF DateRaises(a) THEN [raised |-> TRUE, df |-> a, printed |-> <<>>]
    ELSE The({[raised |-> FALSE, df |-> b, printed |-> Printed(raw, b)] :
                 b \in {StandardDates(a)}})

\* read_and_clean_df, from the table pd.read_csv gave
read_and_clean_df(raw) ==
    The({CleanDates(raw, a) : a \in {reset_index(dropna(raw))}})

\* ---------------------------------------------------------------------------
\* One load of a file of up to LenLoad rows
\* ---------------------------------------------------------------------------

\* date strings of a file: three spellings of one day, another day, and one
\* that is no date
FileDates ==
    { <<"2", "0", "2", "0", "/", "1", "/", "5">>,
      <<"2", "0", "2", "0", "-", "1", "-", "5">>,
      <<"2", "0", "2", "0", "/", "0", "1", "/", "0", "5">>,
      <<"2", "0", "2", "0", "/", "1", "/", "6">>,
      <<"2", "0", "2", "0", "0", "1", "0", "7">> }

\* a close of a file: a price or an empty field
FileCloses == {Num(1), NaN}

\* the table pd.read_csv returns for rows <<date, close>>
FileTable(rows) ==
    [index |-> [i \in 1..Len(rows) |-> i - 1],
     cols |-> << [name |-> s_Date, vals |-> [i \in 1..Len(rows) |-> rows[i][1]]],
                 [name |-> s_Open, vals |-> [i \in 1..Len(rows) |-> rows[i][2]]],
                 [name |-> s_High, vals |-> [i \in 1..Len(rows) |-> rows[i][2]]],
                 [name |-> s_Low, vals |-> [i \in 1..Len(rows) |-> rows[i][2]]],
                 [name |-> s_Close, vals |-> [i \in 1..Len(rows) |-> rows[i][2]]] >>]

InitLoad ==
    /\ \E n \in 1..LenLoad : \E rows \in [1..n -> FileDates \X FileCloses] :
          /\ df2 = FileTable(rows)
          /\ df = EmptyTable
    /\ pc = "load_start"
    /\ call = NoCall
    /\ out = <<>>
    /\ rowFloat = "numpy"
    /\ cols_todo = <<>>
    /\ k_loop = 0
    /\ fs_choices = <<>>
    /\ written = 0

\* sp_future = read_and_clean_df(...); df = sp_future.copy()
Load_Return ==
    /\ pc = "load_start"
    /\ \E r \in {read_and_clean_df(df2)} :
          /\ ~r.raised
          /\ df' = r.df
          /\ out' = r.printed
    /\ pc' = "load_returned"
    /\ call' = [NoCall EXCEPT !.fn = "read_and_clean_df", !.by = "driver"]
    /\ UNCHANGED <<df2, rowFloat, cols_todo, k_loop, fs_choices, written>>

\* a date of a complete row makes the load raise: nothing is returned
Load_Raise ==
    /\ pc = "load_start"
    /\ \E r \in {read_and_clean_df(df2)} :
          /\ r.raised
          /\ out' = r.printed
    /\ pc' = "load_raised"
    /\ call' = [NoCall EXCEPT !.fn = "read_and_clean_df", !.by = "driver"]
    /\ UNCHANGED <<df, df2, rowFloat, cols_todo, k_loop, fs_choices, written>>

NextLoad == Load_Return \/ Load_Raise

SpecLoad == InitLoad /\ [][NextLoad]_vars

\* the rows of the file with no empty field, in file order
CleanRows(t) == {i \in 1..NRows(t) : ~IsNaN(Col(t, s_Close)[i])}

RECURSIVE RowsInOrder(_, _)
\* the members of a set of row numbers from i on, in increasing order
RowsInOrder(S, i) ==
    IF S = {} THEN <<>>
    ELSE IF i \in S THEN <<i>> \o RowsInOrder(S \ {i}, i + 1)
    ELSE RowsInOrder(S, i + 1)

\* two rows of the file whose dates are one day written in two ways or the same way
SameDay(a, b) ==
    standardizeTimeString(a).value = standardizeTimeString(b).value

\* C15: when cleaned rows share a normalized date the load prints the alert and
\* returns the table with every cleaned row kept, in file order, and does not
\* raise; when all dates differ nothing is reported.
C15_DuplicatesKept ==
    /\ pc = "load_raised" =>
          \E i \in CleanRows(df2) : standardizeTimeString(Col(df2, s_Date)[i]).raised # "no"
    /\ pc = "load_returned" =>
          \E kept \in {RowsInOrder(CleanRows(df2), 1)} :
             /\ NRows(df) = Len(kept)
             /\ \A k \in 1..Len(kept) :
                   /\ Col(df, s_Close)[k] = Col(df2, s_Close)[kept[k]]
                   /\ Col(df, s_Date)[k] = standardizeTimeString(Col(df2, s_Date)[kept[k]]).value
             /\ ("Alert: duplicate dates discovered" \in {out[m] : m \in 1..(Len(out) - 1)})
                   <=> (\E j, k \in 1..Len(kept) :
                           j # k /\ SameDay(Col(df2, s_Date)[kept[j]], Col(df2, s_Date)[kept[k]]))

\* three rows returned, two of them one day written in two ways, and the alert
C15_Witness ==
    /\ pc = "load_returned"
    /\ NRows(df) = 3
    /\ Len(out) = 2
    /\ Col(df2, s_Date)[1] # Col(df2, s_Date)[3]
    /\ Col(df, s_Date)[1] = Col(df, s_Date)[3]
    /\ Col(df, s_Date)[1] # Col(df, s_Date)[2]

\* ---------------------------------------------------------------------------
\* The trend-following sweep: averages, first drop of incomplete rows, the loop
\* over fs_choices, second drop
\* ---------------------------------------------------------------------------

LenSweep == 7

\* fs_choices = [10,30,60,100,150,260], and the window list of the average
\* sweep, scaled to 1..6
FSChoices == <<1, 2, 3, 4, 5, 6>>

ClosesSweep == {1, 2}

RECURSIVE MASweepOver(_, _)
\* for p in [...]: calSMA(df,p,col = 'Close'); calEMA(df,p,col = 'Close')
MASweepOver(t, ws) ==
    IF ws = <<>> THEN t
    ELSE The({MASweepOver(b, Tail(ws)) :
                 b \in {calEMA(a, Head(ws)) : a \in {calSMA(t, Head(ws))}}})

InitSweep ==
    /\ \E a \in [1..LenSweep -> ClosesSweep] :
          df = BarsTable([i \in 1..LenSweep |-> FlatBar(a[i])])
    /\ df2 = EmptyTable
    /\ pc = "sw_start"
    /\ call = NoCall
    /\ out = <<>>
    /\ rowFloat = "numpy"   \* closes are positive: no divisor is zero
    /\ cols_todo = <<>>
    /\ k_loop = 0
    /\ fs_choices = <<>>
    /\ written = 0

\* calEndOfDayRet(df)
SW_EodRet ==
    /\ pc = "sw_start"
    /\ df' = calEndOfDayRet(df)
    /\ pc' = "sw_ret"
    /\ call' = [NoCall EXCEPT !.fn = "calEndOfDayRet", !.by = "driver"]
    /\ UNCHANGED <<df2, out, rowFloat, cols_todo, k_loop, fs_choices, written>>

\* the average sweep of lines 282-284
SW_Averages ==
    /\ pc = "sw_ret"
    /\ DefaultIndex(df)
    /\ df' = MASweepOver(df, FSChoices)
    /\ pc' = "sw_ma"
    /\ call' = [NoCall EXCEPT !.fn = "calSMA_calEMA", !.by = "driver"]
    /\ UNCHANGED <<df2, out, rowFloat, cols_todo, k_loop, fs_choices, written>>

\* df.dropna(inplace=True); df.reset_index(drop=True,inplace=True)
SW_FirstDrop ==
    /\ pc = "sw_ma"
    /\ df' = reset_index(dropna(df))
    /\ pc' = "sw_clean"
    /\ call' = [NoCall EXCEPT !.fn = "dropna", !.by = "driver"]
    /\ UNCHANGED <<df2, out, rowFloat, cols_todo, k_loop, fs_choices, written>>

\* create_FS_ret called on the loaded table, which has no average column yet
SW_Direct ==
    /\ pc = "sw_start"
    /\ \E F \in 1..2, S \in 1..2, MA_type \in MATypes :
          /\ df' = create_FS_ret(df, F, S, MA_type)
          /\ call' = [NoCall EXCEPT !.fn = "create_FS_ret", !.F = F, !.S = S,
                                    !.MA_type = MA_type, !.by = "direct"]
    /\ pc' = "sw_direct"
    /\ UNCHANGED <<df2, out, rowFloat, cols_todo, k_loop, fs_choices, written>>

\* fs_choices = [10,30,60,100,150,260]
SW_Choices ==
    /\ pc = "sw_clean"
    /\ fs_choices' = FSChoices
    /\ pc' = "fs_while"
    /\ call' = NoCall
    /\ UNCHANGED <<df, df2, out, rowFloat, cols_todo, k_loop, written>>

PopRest_Keep(l) == l

\* what l.pop(0) leaves in the list l
PopRest(l) == Tail(l)

\* while len(fs_choices) > 0: f = fs_choices.pop(0)
SW_Pop ==
    /\ pc = "fs_while"
    /\ Len(fs_choices) > 0
    /\ fs_choices' = PopRest(fs_choices)
    /\ call' = [NoCall EXCEPT !.F = Head(fs_choices)]
    /\ k_loop' = 1
    /\ pc' = "fs_for"
    /\ UNCHANGED <<df, df2, out, rowFloat, cols_todo, written>>

\* for s in fs_choices: df = create_FS_ret(df,f,s,'SMA')
SW_CallSMA ==
    /\ pc = "fs_for"
    /\ k_loop <= Len(fs_choices)
    /\ df' = create_FS_ret(df, call.F, fs_choices[k_loop], s_SMA)
    /\ call' = [NoCall EXCEPT !.fn = "create_FS_ret", !.F = call.F,
                              !.S = fs_choices[k_loop], !.MA_type = s_SMA,
                              !.by = "driver"]
    /\ out' = Append(out, <<call.F, fs_choices[k_loop], s_SMA>>)
    /\ pc' = "fs_ema"
    /\ UNCHANGED <<df2, rowFloat, cols_todo, k_loop, fs_choices, written>>

\* df = create_FS_ret(df,f,s,'EMA'), then the next s
SW_CallEMA ==
    /\ pc = "fs_ema"
    /\ df' = create_FS_ret(df, call.F, fs_choices[k_loop], s_EMA)
    /\ call' = [NoCall EXCEPT !.fn = "create_FS_ret", !.F = call.F,
                              !.S = fs_choices[k_loop], !.MA_type = s_EMA,
                              !.by = "driver"]
    /\ out' = Append(out, <<call.F, fs_choices[k_loop], s_EMA>>)
    /\ k_loop' = k_loop + 1
    /\ pc' = "fs_for"
    /\ UNCHANGED <<df2, rowFloat, cols_todo, fs_choices, written>>

\* the for loop is exhausted: back to the while test
SW_NextF ==
    /\ pc = "fs_for"
    /\ k_loop > Len(fs_choices)
    /\ pc' = "fs_while"
    /\ call' = NoCall
    /\ UNCHANGED <<df, df2, out, rowFloat, cols_todo, k_loop, fs_choices, written>>

\* the while test fails; df.dropna(inplace = True)
SW_SecondDrop ==
    /\ pc = "fs_while"
    /\ Len(fs_choices) = 0
    /\ df' = dropna(df)
    /\ pc' = "fs_done"
    /\ call' = [NoCall EXCEPT !.fn = "dropna", !.by = "driver"]
    /\ UNCHANGED <<df2, out, rowFloat, cols_todo, k_loop, fs_choices, written>>

NextSweep ==
    \/ SW_EodRet
    \/ SW_Averages
    \/ SW_FirstDrop
    \/ SW_Direct
    \/ SW_Choices
    \/ SW_Pop
    \/ SW_CallSMA
    \/ SW_CallEMA
    \/ SW_NextF
    \/ SW_SecondDrop

SpecSweep == InitSweep /\ [][NextSweep]_vars

\* the control flow of the cells above, their table updates left out: which
\* position follows which under the tests of the while and the for of lines
\* 831-833. Every table update above is a total function of the table, so
\* a step of NextSweep is possible exactly when a step of SweepControl is.
SweepControl ==
    \/ pc = "sw_start" /\ pc' \in {"sw_ret", "sw_direct"}
    \/ pc = "sw_ret" /\ DefaultIndex(df) /\ pc' = "sw_ma"
    \/ pc = "sw_ma" /\ pc' = "sw_clean"
    \/ pc = "sw_clean" /\ pc' = "fs_while"
    \/ pc = "fs_while" /\ pc' = (IF Len(fs_choices) > 0 THEN "fs_for" ELSE "fs_done")
    \/ pc = "fs_for" /\ pc' = (IF k_loop <= Len(fs_choices) THEN "fs_ema" ELSE "fs_while")
    \/ pc = "fs_ema" /\ pc' = "fs_for"

\* the cells run one after another and a Python loop keeps stepping
SpecSweepFair == SpecSweep /\ WF_pc(SweepControl)

\* the calls logged so far are of distinct triples, each with f < s
DistinctAscending(log) ==
    /\ \A i \in 1..Len(log) : log[i][1] < log[i][2]
    /\ \A i, j \in 1..Len(log) : i # j => log[i] # log[j]

\* the triples the window list admits: f before s in the list, either type
AllPairs ==
    {<<FSChoices[i], FSChoices[j], m>> : i \in 1..Len(FSChoices), j \in 1..Len(FSChoices),
                                          m \in MATypes} \cap
    {<<f, s, m>> \in (1..6) \X (1..6) \X MATypes : f < s}

\* the names of the columns of table t that end with suffix
ColumnsEnding(t, suffix) ==
    {c \in {Columns(t)[k] : k \in 1..Len(Columns(t))} :
        Len(c) >= Len(suffix) /\ SubSeq(c, Len(c) - Len(suffix) + 1, Len(c)) = suffix}

\* C17: the sweep over the six windows ends, having called create_FS_ret once
\* for each pair f < s and each type, 30 calls, never with f >= s and never
\* twice with the same triple, and leaving 30 signal and 30 return columns.
C17_SweepCalls ==
    /\ [](pc \notin {"sw_direct", "sw_start"} => DistinctAscending(out))
    /\ [](pc = "fs_done" =>
             /\ Len(out) = 30
             /\ {out[i] : i \in 1..Len(out)} = AllPairs
             /\ Cardinality(ColumnsEnding(df, s_Signal)) = 30
             /\ Cardinality(ColumnsEnding(df, s_Return)) = 30)
    /\ <>(pc \in {"fs_done", "sw_direct"})

\* the sweep has ended with the last pair, 150 and 260 in the notebook, logged
C17_Witness ==
    /\ pc = "fs_done"
    /\ out[Len(out)] = <<5, 6, s_EMA>>
    /\ HasCol(df, SignalName(s_SMA, 1, 6))
    /\ NRows(df) >= 1


\* the average columns (SMA_n, EMA_n for a window n of the list) that table t holds
MAColumns(t) ==
    {c \in {MAName(m, FSChoices[i]) : m \in MATypes, i \in 1..Len(FSChoices)} : HasCol(t, c)}

\* the two average columns a call of create_FS_ret reads
NeededMA(c) == {MAName(c.MA_type, c.F), MAName(c.MA_type, c.S)}

\* C18: a call of create_FS_ret leaves every average column that exists with
\* the values it had, adds an average column only when one of the two it needs
\* is absent, and in the sweep of the driver, where all were made before, adds
\* and changes none.
C18_Memoized ==
    [][call'.fn = "create_FS_ret" =>
          \E before \in {MAColumns(df)}, after \in {MAColumns(df')} :
             /\ \A c \in before : c \in after /\ Col(df', c) = Col(df, c)
             /\ after \ before \subseteq NeededMA(call')
             /\ NeededMA(call') \subseteq after
             /\ call'.by = "driver" => after = before]_vars

\* the driver has called create_FS_ret for windows 5 and 6 on a table that
\* held both averages, the slow one with a value in its first row
C18_Witness ==
    /\ pc = "fs_ema"
    /\ call.fn = "create_FS_ret" /\ call.by = "driver"
    /\ call.F = 5 /\ call.S = 6
    /\ NRows(df) >= 1
    /\ ~IsNaN(Col(df, MAName(s_SMA, 6))[1])


\* C19: every call of create_FS_ret in the sweep, which is given the table
\* after the first drop of incomplete rows and the index reset, leaves the
\* eodRet column with the values it had at every row, the first included.
C19_EodRetUnchanged ==
    [][call'.fn = "create_FS_ret" /\ call'.by = "driver" =>
          Col(df', s_eodRet) = Col(df, s_eodRet)]_vars

\* the first call of the sweep has returned and the first row's eodRet is missing
C19_Witness ==
    /\ pc = "fs_ema"
    /\ call.fn = "create_FS_ret" /\ call.by = "driver"
    /\ call.F = 1 /\ call.S = 2
    /\ NRows(df) >= 2
    /\ IsNaN(Col(df, s_eodRet)[1])
    /\ ~IsNaN(Col(df, s_eodRet)[2])


----------------------------------------------------------------------------
(* SpecPipe: the notebook run from its first cell to its last *)

\* the rows of the file that follow the fixed history
PipeFree == 3

\* the bar <<Open, High, Low, Close>> that opens, bottoms and closes at c and
\* peaks r above it
RangeUp(c, r) == <<c, c + r, c, c>>

\* a history on which no rolling deviation of any column is zero
PipeHistory ==
    << RangeUp(1, 1), RangeUp(2, 2), RangeUp(3, 3), RangeUp(4, 4), RangeUp(5, 1),
       RangeUp(6, 2), RangeUp(1, 3), RangeUp(4, 4), RangeUp(2, 1) >>

\* the bars <<Open, High, Low, Close>> a later row is drawn from: two that open
\* and bottom where the last bar of the history did, and one that does not
PipeBars == {<<2, 6, 2, 5>>, <<2, 4, 2, 3>>, <<5, 8, 5, 6>>}

\* the windows of the pret sweep and of the average, volatility and trend
\* sweeps, scaled from [1,3,...,100] and [10,30,60,100,150,260]
PipePrets == <<1>>
PipeWindows == <<2, 3>>

\* the date string of row i of the file, and a string that is no date
PipeDate(i) == <<"2", "0", "2", "0", "/", "1", "/">> \o str(i)
PipeNoDate == <<"2", "0", "2", "0", "0", "1", "0", "1">>

\* the table pd.read_csv returns for a file of these dates and bars
PipeFile(dates, bars) ==
    [BarsTable(bars) EXCEPT !.cols[1].vals = dates]

RECURSIVE PretSweep(_, _)
\* lines 204-206
PretSweep(t, ps) ==
    IF ps = <<>> THEN t
    ELSE The({PretSweep(a, Tail(ps)) : a \in {calPret(t, Head(ps))}})

RECURSIVE VolatilitySweep(_, _)
\* lines 295-297
VolatilitySweep(t, ws) ==
    IF ws = <<>> THEN t
    ELSE The({VolatilitySweep(b, Tail(ws)) :
                 b \in {calSortinoMV(a, Head(ws), s_eodRet) :
                 a \in {calMV(t, Head(ws), s_eodRet)}}})

\* the prefix the function of that name puts before the column's name
ZPrefix(fn) ==
    CASE fn = "zCol" -> s_z
      [] fn = "zzCol" -> s_zz
      [] fn = "zzzCol" -> s_zzz

RECURSIVE ZSweep(_, _, _)
\* for col in to_be_normalized_cols: fn(df,col), stopping at a call that raises
ZSweep(fn, r, cols) ==
    IF r.raised \/ cols = <<>> THEN r
    ELSE The({ZSweep(fn, a, Tail(cols)) :
                 a \in {ZScore(r.df, Head(cols), ZDefault(fn), ZPrefix(fn))}})

\* one normalisation cell: the loop, then the drop of the two temporary columns
NormalizeBy(fn, r, cols) ==
    The({IF a.raised THEN a
         ELSE [df |-> Drop(a.df, {s_temp_base_mean, s_temp_base_std}),
               raised |-> FALSE] :
            a \in {ZSweep(fn, r, cols)}})

RECURSIVE NormalizeCells(_, _, _)
\* the cells of the functions fns in turn, stopping at one that raises
NormalizeCells(r, fns, cols) ==
    IF r.raised \/ fns = <<>> THEN r
    ELSE The({NormalizeCells(a, Tail(fns), cols) : a \in {NormalizeBy(Head(fns), r, cols)}})

\* lines 630-717 on table t: the list is fixed before the first loop
Normalize(t) ==
    NormalizeCells([df |-> t, raised |-> FALSE], <<"zCol", "zzCol", "zzzCol">>,
                   Tail(Columns(t)))

RECURSIVE TrendFor(_, _, _)
\* for s in fs_choices: create_FS_ret(df,f,s,'SMA'); create_FS_ret(df,f,s,'EMA')
TrendFor(t, f, ss) ==
    IF ss = <<>> THEN t
    ELSE The({TrendFor(b, f, Tail(ss)) :
                 b \in {create_FS_ret(a, f, Head(ss), s_EMA) :
                 a \in {create_FS_ret(t, f, Head(ss), s_SMA)}}})

RECURSIVE TrendSweep(_, _)
\* lines 830-836 with the list fs
TrendSweep(t, fs) ==
    IF fs = <<>> THEN t
    ELSE The({TrendSweep(a, PopRest(fs)) : a \in {TrendFor(t, Head(fs), PopRest(fs))}})

RECURSIVE CounterFor(_, _, _)
\* for r in [x/10 for x in range(6,30,4)]: create_CT_ret(df,p,r), from tenths x on
CounterFor(t, p, x) ==
    IF x \notin Retracements THEN t
    ELSE The({CounterFor(a, p, x + 4) : a \in {create_CT_ret(t, p, x)}})

RECURSIVE CounterSweep(_, _)
\* lines 914-916, here for the lookbacks p..MaxPeriod
CounterSweep(t, p) ==
    IF p > MaxPeriod THEN t
    ELSE The({CounterSweep(a, p + 1) : a \in {CounterFor(t, p, 6)}})


\* the names the finished stages are logged under
Stages == <<"load", "returns", "statistics", "normalization", "trend", "counter">>

InitPipe ==
    /\ \E later \in [1..PipeFree -> PipeBars], dated \in BOOLEAN :
          df2 = PipeFile([i \in 1..(Len(PipeHistory) + PipeFree) |->
                             IF i = 1 /\ ~dated THEN PipeNoDate ELSE PipeDate(i)],
                         PipeHistory \o later)
    /\ df = EmptyTable
    /\ pc = "p_start"
    /\ call = NoCall
    /\ out = <<>>
    /\ rowFloat \in RowFloats
    /\ cols_todo = <<>>
    /\ k_loop = 0
    /\ fs_choices = <<>>
    /\ written = 0

\* lines 120 and 131: sp_future = read_and_clean_df(...); df = sp_future.copy()
P_Load ==
    /\ pc = "p_start"
    /\ \E r \in {read_and_clean_df(df2)} :
          /\ ~r.raised
          /\ df' = r.df
          /\ df2' = r.df
    /\ out' = Append(out, "load")
    /\ pc' = "p_loaded"
    /\ call' = [NoCall EXCEPT !.fn = "read_and_clean_df", !.by = "driver"]
    /\ UNCHANGED <<rowFloat, cols_todo, k_loop, fs_choices, written>>

\* the load raises: sp_future and df stay undefined and no later cell can run
P_LoadRaise ==
    /\ pc = "p_start"
    /\ \E r \in {read_and_clean_df(df2)} : r.raised
    /\ out' = Append(out, "raised")
    /\ pc' = "p_aborted"
    /\ call' = [NoCall EXCEPT !.fn = "read_and_clean_df", !.by = "driver"]
    /\ UNCHANGED <<df, df2, rowFloat, cols_todo, k_loop, fs_choices, written>>

\* lines 163 and 204-206
P_Returns ==
    /\ pc = "p_loaded"
    /\ \E a \in {calEndOfDayRet(df)} : df' = PretSweep(a, PipePrets)
    /\ out' = Append(out, "returns")
    /\ pc' = "p_returns"
    /\ call' = [NoCall EXCEPT !.fn = "calPret", !.by = "driver"]
    /\ UNCHANGED <<df2, rowFloat, cols_todo, k_loop, fs_choices, written>>

\* lines 282-284, 295-297 and 321-322
P_Statistics ==
    /\ pc = "p_returns"
    /\ \E a \in {MASweepOver(df, PipeWindows)} :
       \E b \in {VolatilitySweep(a, PipeWindows)} : df' = RangeSweep(b, 1)
    /\ out' = Append(out, "statistics")
    /\ pc' = "p_stats"
    /\ call' = [NoCall EXCEPT !.fn = "calPreviousDayrange", !.by = "driver"]
    /\ UNCHANGED <<df2, rowFloat, cols_todo, k_loop, fs_choices, written>>

Halt_Resume(next) == next

\* where the run stands after a cell raised: the run of all cells stops there
Halt(next) == "p_aborted"

\* lines 630-717, no call raising
P_Normalize ==
    /\ pc = "p_stats"
    /\ \E r \in {Normalize(df)} :
          /\ ~r.raised
          /\ df' = r.df
    /\ out' = Append(out, "normalization")
    /\ pc' = "p_normal"
    /\ call' = [NoCall EXCEPT !.fn = "zzzCol", !.by = "driver"]
    /\ UNCHANGED <<df2, rowFloat, cols_todo, k_loop, fs_choices, written>>

\* lines 630-717, a call raising ZeroDivisionError
P_NormalizeRaise ==
    /\ pc = "p_stats"
    /\ \E r \in {Normalize(df)} :
          /\ r.raised
          /\ df' = r.df
    /\ out' = Append(out, "raised")
    /\ pc' = Halt("p_normal")
    /\ call' = [NoCall EXCEPT !.fn = "zCol", !.by = "driver"]
    /\ UNCHANGED <<df2, rowFloat, cols_todo, k_loop, fs_choices, written>>

\* lines 728-729
P_FirstDrop ==
    /\ pc = "p_normal"
    /\ df' = reset_index(dropna(df))
    /\ pc' = "p_clean1"
    /\ call' = [NoCall EXCEPT !.fn = "dropna", !.by = "driver"]
    /\ UNCHANGED <<df2, out, rowFloat, cols_todo, k_loop, fs_choices, written>>

\* lines 830-836
P_Trend ==
    /\ pc = "p_clean1"
    /\ df' = TrendSweep(df, PipeWindows)
    /\ out' = Append(out, "trend")
    /\ pc' = "p_trend"
    /\ call' = [NoCall EXCEPT !.fn = "create_FS_ret", !.by = "driver"]
    /\ UNCHANGED <<df2, rowFloat, cols_todo, k_loop, fs_choices, written>>

\* line 847
P_SecondDrop ==
    /\ pc = "p_trend"
    /\ df' = dropna(df)
    /\ pc' = "p_clean2"
    /\ call' = [NoCall EXCEPT !.fn = "dropna", !.by = "driver"]
    /\ UNCHANGED <<df2, out, rowFloat, cols_todo, k_loop, fs_choices, written>>

\* lines 867-868
P_PrevHighLow ==
    /\ pc = "p_clean2"
    /\ df' = PrevHighLow(df)
    /\ pc' = "p_prev"
    /\ call' = NoCall
    /\ UNCHANGED <<df2, out, rowFloat, cols_todo, k_loop, fs_choices, written>>

\* lines 914-916
P_Counter ==
    /\ pc = "p_prev"
    /\ df' = CounterSweep(df, 1)
    /\ out' = Append(out, "counter")
    /\ pc' = "p_counter"
    /\ call' = [NoCall EXCEPT !.fn = "create_CT_ret", !.by = "driver"]
    /\ UNCHANGED <<df2, rowFloat, cols_todo, k_loop, fs_choices, written>>

\* line 927
P_DropPrev ==
    /\ pc = "p_counter"
    /\ df' = Drop(df, {s_Prev_high, s_Prev_low})
    /\ pc' = "p_noprev"
    /\ call' = NoCall
    /\ UNCHANGED <<df2, out, rowFloat, cols_todo, k_loop, fs_choices, written>>

\* line 938
P_ThirdDrop ==
    /\ pc = "p_noprev"
    /\ df' = dropna(df)
    /\ pc' = "p_clean3"
    /\ call' = [NoCall EXCEPT !.fn = "dropna", !.by = "driver"]
    /\ UNCHANGED <<df2, out, rowFloat, cols_todo, k_loop, fs_choices, written>>

\* line 1199: df.to_csv('strat_returns_with_signals_new.csv',index = False)
P_Write ==
    /\ pc = "p_clean3"
    /\ written' = written + 1
    /\ pc' = "p_written"
    /\ call' = [NoCall EXCEPT !.fn = "to_csv", !.by = "driver"]
    /\ UNCHANGED <<df, df2, out, rowFloat, cols_todo, k_loop, fs_choices>>

NextPipe ==
    \/ P_Load
    \/ P_LoadRaise
    \/ P_Returns
    \/ P_Statistics
    \/ P_Normalize
    \/ P_NormalizeRaise
    \/ P_FirstDrop
    \/ P_Trend
    \/ P_SecondDrop
    \/ P_PrevHighLow
    \/ P_Counter
    \/ P_DropPrev
    \/ P_ThirdDrop
    \/ P_Write

SpecPipe == InitPipe /\ [][NextPipe]_vars

\* the Date cells of table t, in row order
DatesOf(t) == Col(t, s_Date)


\* a stage of the run has raised
Raised(log) == \E i \in 1..Len(log) : log[i] = "raised"

\* the table holds what each stage leaves in it
AllStagesIn(t) ==
    /\ HasCol(t, s_Date)
    /\ HasCol(t, s_eodRet)
    /\ HasCol(t, s_MV \o str(PipeWindows[1]))
    /\ HasCol(t, s_zzz \o s_Close)
    /\ HasCol(t, ReturnName(s_EMA, PipeWindows[1], PipeWindows[2]))
    /\ HasCol(t, ShortReturnName(MaxPeriod, 26))

\* C16: the file is written at most once, by the last step and only after the
\* load, the returns, the statistics, the normalisation, the trend sweep and
\* the counter-trend sweep have all finished; where a stage raised, no file
\* has been written.
C16_AllOrNothing ==
    /\ [](written \in {0, 1})
    /\ [](written = 1 => pc = "p_written" /\ out = Stages /\ AllStagesIn(df))
    /\ [](Raised(out) => written = 0)
    /\ [][written' # written =>
             pc = "p_clean3" /\ pc' = "p_written" /\ written = 0 /\ written' = 1]_vars
    /\ [][pc # "p_written"]_vars

\* a run has gone through every stage and written a table that has rows
C16_Witness ==
    /\ pc = "p_written"
    /\ written = 1
    /\ out = Stages
    /\ NRows(df) >= 2

\* the position in the loaded series sp_future of the row dated d
LoadedRow(d) == CHOOSE j \in 1..NRows(df2) : DatesOf(df2)[j] = d

\* the rows of table t are the last rows of the loaded series
SuffixOf(t, loaded) ==
    \E k \in 0..NRows(loaded) :
        DatesOf(t) = SubSeq(DatesOf(loaded), k + 1, NRows(loaded))

=============================================================================
